---- MODULE Spec2Model ----
(***************************************************************************)
(* Market Map: the chat-turn orchestration of server.js (POST /api/chat),  *)
(* the persistence helpers of lib/db.js and the generation / citation      *)
(* helpers of lib/agent.js.                                                *)
(*                                                                         *)
(* Texts (user messages, model replies, responses) are sequences of        *)
(* tokens.  The tokens that the code inspects are:                         *)
(*   " "       whitespace                                                  *)
(*   "{" "}"   braces, "json" the members of a well-formed JSON object     *)
(*   "sorry"   text that begins with "Sorry"                               *)
(*   "marker"  the phrase "only cover software and technology markets"     *)
(*   "srcsec"  a blank line followed by "Sources:" and the rest            *)
(* every other token is opaque text.                                       *)
(*                                                                         *)
(* Left out: the username column, the tracing ids and the rows'            *)
(* updated_at, the missing-API-key exit, a throw of the trace-id export    *)
(* and of the store on the empty-message path.  Every other throw of a     *)
(* service call or of the store's write is an input of the step it ends.   *)
(***************************************************************************)
EXTENDS Integers, Sequences, FiniteSets, TLC

VARIABLES
    sessions,   \* the sessions table: session id -> row
    nextId,     \* ids (crypto.randomUUID) and creation times (Date.now) handed out so far
    env,        \* process configuration and what the external services may answer
    budget,     \* chat requests the clients will still send
    rq,         \* per in-flight request: the locals of the /api/chat handler
    last,       \* what the most recently finished request did
    users,      \* the users table: user id -> row
    su,         \* per in-flight signup: the locals of the /api/signup handler
    bt,         \* the circuit breaker of the observability integration
    call        \* the library call made last: its arguments and its result

\* The state outside the chat handler.
side == <<users, su, bt, call>>

vars == <<sessions, nextId, env, budget, rq, last, users, su, bt, call>>

----------------------------------------------------------------------------
(* Bounds *)

MaxRequests == 3        \* chat requests per run
MaxUrls == 1            \* longest source list a service returns
MaxCiteUrls == 5        \* the same, where one result turn is explored alone
MaxRows == 4            \* rows of a sessions table handed to a library call
MaxStamp == 3           \* creation times of those rows: 1..MaxStamp
MaxKeep == 3            \* the `keep` of a pruneSessions call: 0..MaxKeep, or 50
MaxHistory == 3         \* entries of a chat history handed to a library call

Users == {"u1", "u2"}
NoUser == "nobody"      \* a cookie that names no users row (or no cookie)
Reqs == {1, 2}          \* request slots of the server (handlers in flight)

Null == "null"

----------------------------------------------------------------------------
(* Generic helpers *)

Range(s) == {s[i] : i \in 1..Len(s)}

\* Faulty variant of Take: no limit.
TakeAll(s, n) == s

Take(s, n) == SubSeq(s, 1, IF n < Len(s) THEN n ELSE Len(s))

RECURSIVE SelectSeqBy(_, _)
\* Array.prototype.filter over a sequence, as an index mask: keep[i] says
\* whether element i is kept.
SelectSeqBy(s, keep) ==
    IF s = <<>> THEN <<>>
    ELSE LET rest == SelectSeqBy(Tail(s), [i \in 1..(Len(s) - 1) |-> keep[i + 1]])
         IN  IF keep[1] THEN <<Head(s)>> \o rest ELSE rest

\* String.prototype.indexOf / lastIndexOf on tokens: 0 when absent.
IndexOf(text, tok) ==
    IF \E i \in 1..Len(text) : text[i] = tok
    THEN CHOOSE i \in 1..Len(text) :
            text[i] = tok /\ \A j \in 1..(i - 1) : text[j] # tok
    ELSE 0

LastIndexOf(text, tok) ==
    IF \E i \in 1..Len(text) : text[i] = tok
    THEN CHOOSE i \in 1..Len(text) :
            text[i] = tok /\ \A j \in (i + 1)..Len(text) : text[j] # tok
    ELSE 0

RECURSIVE TrimStart(_)
TrimStart(text) ==
    IF text # <<>> /\ Head(text) = " " THEN TrimStart(Tail(text)) ELSE text

RECURSIVE TrimEnd(_)
TrimEnd(text) ==
    IF text # <<>> /\ text[Len(text)] = " "
    THEN TrimEnd(SubSeq(text, 1, Len(text) - 1))
    ELSE text

\* Faulty variant of Trim: the text as it is.
NoTrim(text) == text

\* String.prototype.trim
Trim(text) == TrimEnd(TrimStart(text))

----------------------------------------------------------------------------
(* lib/agent.js: pure helpers *)

\* extractJsonBlock: the slice from the first "{" to the last "}", or <<>>
\* (null) when a brace is missing or the last "}" is not after the first "{".
extractJsonBlock(text) ==
    LET start == IndexOf(text, "{")
        end   == LastIndexOf(text, "}")
    IN  IF text = <<>> \/ start = 0 \/ end = 0 \/ end <= start
        THEN <<>>
        ELSE SubSeq(text, start, end)

\* JSON.parse succeeds on a block that is one well-formed object.
JsonParses(block) == block \in {<<"{", "}">>, <<"{", "json", "}">>}

\* JSON values as the code tests them: a string-valued member is
\* [str |-> TRUE, text |-> its text], an array-valued member is
\* [arr |-> TRUE, items |-> its elements]; NotString / NotArray stand for a
\* missing member or one of another type.
Str(text) == [str |-> TRUE, text |-> text]
NotString == [str |-> FALSE, text |-> <<>>]
Arr(items) == [arr |-> TRUE, items |-> items]
NotArray == [arr |-> FALSE, items |-> <<>>]

\* {} : every member undefined.
EmptyObject == [parsed |-> TRUE, action |-> Null, reason |-> NotString,
                apology |-> NotString, plan |-> NotString,
                clarifying_questions |-> NotArray, activity |-> NotArray,
                ready_for_results |-> FALSE, sources |-> NotArray]

\* null : parsed?.member is undefined for every member.
NullObject == [EmptyObject EXCEPT !.parsed = FALSE]

\* The value of  jsonBlock ? JSON.parse(jsonBlock) : null  inside try/catch
\* (server.js) for a reply whose JSON members, if well formed, are `fields`:
\* null when there is no block or the parse throws.
ParsedOrNull(reply) ==
    LET block == extractJsonBlock(reply.text)
    IN  IF block = <<>> \/ ~JsonParses(block) THEN NullObject
        ELSE IF block = <<"{", "}">> THEN EmptyObject
        ELSE reply.fields

\* stripSourcesSection: drop everything from the first blank-line "Sources:"
\* heading to the end, then trim.
stripSourcesSection(text) ==
    LET i == IndexOf(text, "srcsec")
    IN  Trim(IF i = 0 THEN text ELSE SubSeq(text, 1, i - 1))

\* resultRaw.replace(block, "").trim(): the first occurrence of the block
\* starts at the first "{".
RemoveBlock(text, block) ==
    IF block = <<>> THEN text
    ELSE LET start == IndexOf(text, "{")
         IN  Trim(SubSeq(text, 1, start - 1)
                  \o SubSeq(text, start + Len(block), Len(text)))

\* An error is the set of vocabulary words its message contains.
RetryVocabulary == {"overloaded", "unavailable", "503", "fetch failed",
                    "sending request", "econnreset", "etimedout", "enotfound",
                    "network"}

\* Faulty variant of shouldRetryModel: rate limiting counts as transient too.
shouldRetryModelWide(err) == err \cap (RetryVocabulary \cup {"429", "rate"}) # {}

shouldRetryModel(err) == err \cap RetryVocabulary # {}

NoUrl == [id |-> 0, www |-> FALSE]
Url(n) == [id |-> n, www |-> n % 2 = 1]

\* toDomain: the host without a leading "www."
toDomain(url) == url.id

\* withDomains
withDomains(sources) ==
    [i \in 1..Len(sources) |-> [url |-> sources[i].url, domain |-> toDomain(sources[i].url)]]

RECURSIVE extractSourcesFrom(_, _)
extractSourcesFrom(chunks, seen) ==
    IF chunks = <<>> THEN <<>>
    ELSE LET url == Head(chunks)
         IN  IF url = NoUrl \/ url \in seen
             THEN extractSourcesFrom(Tail(chunks), seen)
             ELSE <<[url |-> url]>> \o extractSourcesFrom(Tail(chunks), seen \cup {url})

\* extractSources: the grounding chunks that carry a url, first occurrence of
\* each url only; none when there is no grounding metadata (<<>>).
extractSources(grounding) == extractSourcesFrom(grounding, {})

\* formatSourcesMarkdown: the heading, then one link per source.
formatSourcesMarkdown(sources) ==
    <<"**Sources:**">> \o [i \in 1..Len(sources) |-> "link"]

\* Faulty variant of RelabelUnverified: the heading is left as it is.
KeepLabel(markdown) == markdown

\* String.prototype.replace("**Sources:**", "**Sources (unverified):**")
RelabelUnverified(markdown) ==
    [i \in 1..Len(markdown) |->
        IF i = IndexOf(markdown, "**Sources:**")
        THEN "**Sources (unverified):**" ELSE markdown[i]]

\* validateSources: the partition of `sources` by the outcome of
\* fetchWithFallback per source; ok[i] is that outcome for source i.
validateSources(sources, ok) ==
    [valid   |-> SelectSeqBy(sources, ok),
     invalid |-> SelectSeqBy(sources, [i \in 1..Len(sources) |-> ~ok[i]])]

\* Faulty variant of fetchWithFallback: the HEAD answer alone decides.
fetchHeadOnly(probe) == probe.head

\* fetchWithFallback: true on a 2xx HEAD answer; otherwise the GET answer.
fetchWithFallback(probe) == IF probe.head THEN TRUE ELSE probe.get

\* What a fetch of a url may come to: a 2xx status, another status, a throw
\* (network error) or the abort of the timeout, which throws as well.
ProbeOutcomes == {"2xx", "404", "throw", "timeout"}

\* head.ok / res.ok of the two fetches of a site; a throw is caught and
\* counts as not ok.
ProbeOf(site) == [head |-> site.head = "2xx", get |-> site.get = "2xx"]

\* The requests fetchWithFallback sends: GET follows unless HEAD returned ok.
fetchRequests(site) ==
    IF ProbeOf(site).head THEN <<"HEAD">> ELSE <<"HEAD", "GET">>

----------------------------------------------------------------------------
(* lib/db.js: the sessions table.  A table is a function from the ids of
   its rows to the rows.  chat_history and trace_json hold JSON text that is
   written with JSON.stringify and read back with JSON.parse; both are
   modelled by the value they encode.  SQL NULL is NotString / NotArray. *)

\* Is row a newer than row b in  ORDER BY created_at DESC  (rowid breaks ties).
Newer(a, b) ==
    a.created_at > b.created_at \/ (a.created_at = b.created_at /\ a.id > b.id)

SessionsOfUser(db, userId) == {id \in DOMAIN db : db[id].user_id = userId}

\* Faulty variant of getActiveSessionForUser: WHERE status = 'complete'.
getCompleteSessionForUser(db, userId) ==
    LET complete == {id \in SessionsOfUser(db, userId) : db[id].status = "complete"}
    IN  {id \in complete : \A other \in complete \ {id} : Newer(db[id], db[other])}

\* getActiveSessionForUser: the ids the query can return (none: {}).
getActiveSessionForUser(db, userId) ==
    LET active == {id \in SessionsOfUser(db, userId) : db[id].status = "active"}
    IN  {id \in active : \A other \in active \ {id} : Newer(db[id], db[other])}

\* createSession: INSERT one row.
createSession(db, row) ==
    [id \in DOMAIN db \cup {row.id} |-> IF id = row.id THEN row ELSE db[id]]

\* Faulty variant of updateSession: WHERE user_id = (the user of row id).
updateSessionsOfUser(db, id, updates) ==
    IF id \notin DOMAIN db THEN db
    ELSE [i \in DOMAIN db |->
            IF db[i].user_id # db[id].user_id THEN db[i]
            ELSE [f \in DOMAIN db[i] |->
                    IF f \in DOMAIN updates THEN updates[f] ELSE db[i][f]]]

\* updateSession: UPDATE the named columns WHERE id = ?; no row, no change.
updateSession(db, id, updates) ==
    IF id \notin DOMAIN db THEN db
    ELSE [db EXCEPT ![id] =
            [f \in DOMAIN db[id] |->
                IF f \in DOMAIN updates THEN updates[f] ELSE db[id][f]]]

\* Faulty variant of NewestIds: ORDER BY created_at ASC.
OldestIds(db, userId, limit) ==
    {id \in SessionsOfUser(db, userId) :
        Cardinality({o \in SessionsOfUser(db, userId) : Newer(db[id], db[o])}) < limit}

\* listSessionsForUser / the SELECT of pruneSessions: the ids of the `limit`
\* newest rows of the user.
NewestIds(db, userId, limit) ==
    {id \in SessionsOfUser(db, userId) :
        Cardinality({o \in SessionsOfUser(db, userId) : Newer(db[o], db[id])}) < limit}

\* pruneSessions: DELETE the user's rows that are not among the `keep` newest.
pruneSessions(db, userId, keep) ==
    LET ids == NewestIds(db, userId, keep)
    IN  IF ids = {} THEN db
        ELSE [id \in {i \in DOMAIN db : db[i].user_id # userId \/ i \in ids} |-> db[id]]

----------------------------------------------------------------------------
(* lib/db.js: the users table, a sequence of rows in the order of their
   AUTOINCREMENT ids. *)

\* getUserByUsernameKey: the rows WHERE username_key = ? (none reads as null).
getUserByUsernameKey(db, usernameKey) ==
    {i \in 1..Len(db) : db[i].username_key = usernameKey}

\* Faulty variant of createUserThrows: a table without the UNIQUE index.
NoUniqueIndex(db, usernameKey) == FALSE

\* username_key TEXT NOT NULL UNIQUE: the INSERT of createUser throws when a
\* row holds the key.
createUserThrows(db, usernameKey) ==
    \E i \in 1..Len(db) : db[i].username_key = usernameKey

\* createUser: INSERT INTO users (username, username_key, created_at).
createUser(db, username, usernameKey) ==
    Append(db, [username |-> username, username_key |-> usernameKey])

----------------------------------------------------------------------------
(* lib/username.js: user names.  A name is a sequence of characters. *)

\* String.prototype.toLowerCase on the characters of the names.
ToLower(c) == IF c = "A" THEN "a" ELSE IF c = "T" THEN "t" ELSE c

\* The characters [a-z0-9] kept by the last replace of normalizeBaseName.
Alnum == {"a", "t", "0", "1", "2", "3", "4", "5", "6", "7", "8", "9"}

\* normalizeBaseName: trim, lower-case, drop whitespace, drop what is not
\* a letter a-z or a digit.
normalizeBaseName(name) ==
    LET trimmed == Trim(name)
        lower == [i \in 1..Len(trimmed) |-> ToLower(trimmed[i])]
        solid == SelectSeq(lower, LAMBDA c : c # " ")
    IN  SelectSeq(solid, LAMBDA c : c \in Alnum)

\* Faulty variant of randomDigits: Math.floor(Math.random() * 900), whose
\* values below 100 have fewer than three digits.
randomDigitsUnpadded == {<<"7">>, <<"8", "9", "9">>}

\* randomDigits: Math.floor(100 + Math.random() * 900).toString(), one of
\* "100" .. "999"; the two ends of the range stand for it.
randomDigits == {<<"1", "0", "0">>, <<"9", "9", "9">>}

\* The bound of the loop of generateUniqueUsername.
LookupLimit == 8

----------------------------------------------------------------------------
(* lib/username.js: confirmations and the category of a turn.  A message is
   a sequence of word tokens and " " tokens. *)

\* The words of the alternation in wantsResult.
ConfirmWords == {"yes", "ok", "proceed"}

\* wantsResult: one of the words occurs in the message.
wantsResult(message) == \E i \in 1..Len(message) : message[i] \in ConfirmWords

\* trimmed.split(/\s+/).length for a trimmed, non-empty text: the runs of
\* non-whitespace.
WordCount(text) ==
    Cardinality({i \in 1..Len(text) : text[i] # " " /\ (i = 1 \/ text[i - 1] = " ")})

ConfirmationMaxWords == 4

\* isConfirmation
isConfirmation(message) ==
    LET trimmed == Trim(message)
    IN  /\ trimmed # <<>>
        /\ wantsResult(trimmed)
        /\ WordCount(trimmed) <= ConfirmationMaxWords

\* Faulty variant of inferCategory: the first user entry that is not a
\* confirmation, walking the history forward.
RECURSIVE inferCategoryForward(_, _)
inferCategoryForward(message, chatHistory) ==
    IF ~isConfirmation(message) \/ chatHistory = <<>> THEN message
    ELSE LET entry == Head(chatHistory)
         IN  IF entry.role = "user" /\ ~isConfirmation(entry.content)
             THEN entry.content
             ELSE inferCategoryForward(message, Tail(chatHistory))

\* inferCategory: the loop runs from the last entry to the first.
RECURSIVE inferCategory(_, _)
inferCategory(message, chatHistory) ==
    IF ~isConfirmation(message) \/ chatHistory = <<>> THEN message
    ELSE LET entry == chatHistory[Len(chatHistory)]
         IN  IF entry.role = "user" /\ ~isConfirmation(entry.content)
             THEN entry.content
             ELSE inferCategory(message, SubSeq(chatHistory, 1, Len(chatHistory) - 1))

----------------------------------------------------------------------------
(* server.js: helpers *)

DEFAULT_MODEL == "gemini-3-flash-preview"
DEFAULT_FALLBACKS == <<"gemini-2.5-flash", "gemini-2.5-flash-lite">>
RetentionKeep == 50
SourceLimit == 4
MinValidSources == 3

\* getModelName: envModel || DEFAULT_MODEL
getModelName(envModel) == IF envModel = "" THEN DEFAULT_MODEL ELSE envModel

\* Faulty variant of Dedup: repeated entries are kept.
KeepRepeated(order, seen) == order

RECURSIVE Dedup(_, _)
\* Array.from(new Set(order)): first occurrences, in order.
Dedup(order, seen) ==
    IF order = <<>> THEN <<>>
    ELSE IF Head(order) \in seen THEN Dedup(Tail(order), seen)
    ELSE <<Head(order)>> \o Dedup(Tail(order), seen \cup {Head(order)})

\* parseFallbackModels: the comma-separated entries, trimmed, blanks dropped.
\* The value is modelled as the sequence of its trimmed entries ("" is blank).
parseFallbackModels(value) == SelectSeq(value, LAMBDA m : m # "")

\* buildModelOrder
buildModelOrder(primary, fallbackValue) ==
    Dedup(SelectSeq(<<primary>> \o DEFAULT_FALLBACKS \o parseFallbackModels(fallbackValue),
                    LAMBDA m : m # ""),
          {})

\* toClientError: the message of the categorized client error.
toClientError(err) ==
    IF err \cap {"overloaded", "unavailable", "503"} # {} THEN "The model is overloaded."
    ELSE IF err \cap {"api key", "apikey"} # {} THEN "Missing or invalid Gemini API key."
    ELSE IF err \cap {"429", "rate"} # {} THEN "Rate limit reached."
    ELSE IF err \cap {"401", "403"} # {} THEN "Authentication failed."
    ELSE IF err \cap {"enotfound", "econnrefused"} # {} THEN "Network connection failed."
    ELSE "Something went wrong."

\* toClientError: does the detail of the client error carry err.message itself.
\* An error without a message ({}) reads as "Unknown error".
toClientErrorDetailIsRaw(err) == toClientError(err) = "Something went wrong." /\ err # {}

\* The detail of an event payload: the words of the underlying error that it
\* repeats (raw), or a fixed text.
NoDetail == [raw |-> FALSE, words |-> {}]

\* toClientError: the detail member.
toClientErrorDetail(err) ==
    IF toClientErrorDetailIsRaw(err) THEN [raw |-> TRUE, words |-> err] ELSE NoDetail

\* The fixed apology of the empty-message path and of the plan fallback.
FixedApology == <<"sorry", "marker">>

\* Faulty variant of addTurnToTrace: the trace of the new turn alone.
traceOfTurn(turns, turn) == <<turn>>

\* addTurnToTrace: trace.turns with one more entry.
addTurnToTrace(turns, turn) == Append(turns, turn)

----------------------------------------------------------------------------
(* What the clients send and the external services may answer.  env.scope
   names the part of the behaviour a specification explores with its full
   range of inputs; the other parts get one input per branch of the code. *)

SrcList(n) == [i \in 1..n |-> [url |-> Url(i)]]

\* Chat messages; a body whose message is not a string reads as "".
Msgs == {<<>>, <<" ">>, <<"crm">>, <<" ", "yes", " ">>}

Bodies(scope) ==
    IF scope = "turn" THEN {NotString} \cup {Str(m) : m \in Msgs}
    ELSE {Str(<<" ">>), Str(<<"crm">>)}

BodyMessage(body) == IF body.str THEN body.text ELSE <<>>

\* Errors a service call may throw.
Errors(scope) ==
    IF scope = "models"
    THEN {{"overloaded"}, {"503", "unavailable"}, {"econnreset"}, {"network", "enotfound"},
          {"429", "rate"}, {"api key"}, {"401"}, {"bad request"}}
    ELSE {{"bad request"}}

\* Replies of the classifier call (assessPlanChange).
AssessReplies(scope) ==
    {[text |-> t, fields |-> [EmptyObject EXCEPT !.action = a, !.reason = Str(<<"why">>)]] :
        t \in {<<"{", "json", "}">>},
        a \in {"replan", "keep"}}
    \cup
    (IF scope # "turn" THEN {}
     ELSE
        {[text |-> t, fields |-> [EmptyObject EXCEPT !.action = a]] :
            t \in {<<"{", "json", "}">>, <<"note", "{", "json", "}">>},
            a \in {"replan", "keep", "other", Null}}
        \cup
        {[text |-> t, fields |-> [EmptyObject EXCEPT !.action = "replan"]] :
            t \in {<<>>, <<"replan">>, <<"}", "json", "{">>, <<"{", "json">>,
                   <<"{", "json", "}", "}">>, <<"{", "}">>}})

\* Replies of the plan-mode generation call.
PlanReplies(scope) ==
    {[text |-> <<"{", "json", "}">>,
      fields |-> [EmptyObject EXCEPT !.apology = a, !.plan = Str(<<"P">>),
                                     !.clarifying_questions = q]] :
        a \in {Str(<<>>), Str(<<"sorry", "offtopic">>)},
        q \in {Arr(<<>>), Arr(<<<<"q1">>>>)}}
    \cup
    (IF scope # "turn" THEN {}
     ELSE
        {[text |-> <<"{", "json", "}">>,
          fields |-> [EmptyObject EXCEPT !.apology = a, !.plan = p,
                                         !.clarifying_questions = q, !.activity = act,
                                         !.ready_for_results = TRUE]] :
            a \in {NotString, Str(<<>>), Str(<<" ">>), Str(<<" ", "sorry", "offtopic">>)},
            p \in {NotString, Str(<<" ">>), Str(<<" ", "P", "\n\n\n", "steps">>)},
            q \in {NotArray, Arr(<<>>), Arr(<<<<" ">>>>), Arr(<<<<"q1">>>>),
                   Arr(<<<<>>, <<"q1">>, <<"q2">>>>)},
            act \in {NotArray, Arr(<<<<"searching">>, <<" ">>>>)}}
        \cup
        {[text |-> t, fields |-> [EmptyObject EXCEPT !.plan = Str(<<"P">>),
                                                     !.clarifying_questions = Arr(<<<<"q1">>>>)]] :
            t \in {<<>>, <<"P", "q1">>, <<"{", "json">>, <<"{", "}">>,
                   <<"{", "{", "json", "}">>}})

\* Replies of the result-mode generation call: the text and the grounding
\* chunks (urls, NoUrl for a chunk without one) that came with it.
ResultTexts(scope) ==
    {<<"{", "json", "}", "body">>, <<"{", "json", "}", "sorry", "offtopic">>}
    \cup
    (IF scope # "turn" THEN {}
     ELSE {<<"body">>, <<"{", "json", "}", "body", "srcsec", "links">>,
           <<"body", "marker">>, <<"{", "json", "}", "body", "{", "x", "}">>,
           <<"{", "json", "}", "srcsec", "sorry">>, <<>>})

Groundings(scope, n) ==
    {<<>>} \cup (IF scope # "citations" THEN {}
                 ELSE {<<Url(1), NoUrl, Url(1)>>, [i \in 1..n |-> Url(i)]})

ResultReplies(scope, n) ==
    {[text |-> t,
      fields |-> [EmptyObject EXCEPT !.activity = act],
      grounding |-> g] :
        t \in ResultTexts(scope),
        act \in IF scope = "turn" THEN {NotArray, Arr(<<<<"ranking">>>>)} ELSE {NotArray},
        g \in Groundings(scope, n)}

\* The lengths of the source lists a service may return, up to n.
ListSizes(scope, n) ==
    IF scope = "citations" THEN {k \in 0..n : k \in {0, 1, MinValidSources} \/ k = n}
    ELSE {0, n}
SourceLists(scope, n) == {SrcList(k) : k \in ListSizes(scope, n)}

\* Replies of the repair call: the text and, if its block is well formed, the
\* "sources" member (entries without a url: NoUrl).
RepairReplies(scope, n) ==
    {[text |-> <<"{", "json", "}">>,
      fields |-> [EmptyObject EXCEPT !.sources = Arr([i \in 1..Len(l) |-> l[i].url])]] :
        l \in SourceLists(scope, n)}
    \cup
    {[text |-> <<"{", "json">>, fields |-> [EmptyObject EXCEPT !.sources = Arr(<<Url(1)>>)]]}
    \cup
    (IF scope # "citations" THEN {}
     ELSE
        {[text |-> t, fields |-> [EmptyObject EXCEPT !.sources = src]] :
            t \in {<<"{", "json", "}">>},
            src \in {NotArray, Arr(<<NoUrl, Url(2)>>)}}
        \cup
        {[text |-> t, fields |-> [EmptyObject EXCEPT !.sources = Arr(<<Url(1)>>)]] :
            t \in {<<>>, <<"none">>, <<"{", "{", "json", "}">>}})

\* The answers of the two liveness probes of one url: GET is issued only
\* when HEAD did not answer 2xx.
ProbeAnswers(scope) ==
    {[head |-> TRUE, get |-> FALSE], [head |-> FALSE, get |-> FALSE]}
    \cup (IF scope # "citations" THEN {} ELSE {[head |-> FALSE, get |-> TRUE]})
Probes(scope, n) == [1..n -> ProbeAnswers(scope)]

----------------------------------------------------------------------------
(* server.js: POST /api/chat.  One record of locals per request. *)

NoRow == [id |-> 0, user_id |-> NoUser, status |-> Null, phase |-> Null,
          turn_count |-> 0, chat_history |-> <<>>, trace_turns |-> <<>>,
          plan_text |-> NotString, plan_questions |-> NotArray,
          plan_status |-> Null, created_at |-> 0]

NoCalls == [assess |-> 0, plan |-> 0, result |-> 0, models |-> <<>>,
            fallback |-> <<>>, srcgen |-> 0, repair |-> 0, probes |-> 0]

NoValidation == [valid |-> <<>>, invalid |-> <<>>]

\* No generation reply was received.
NoReply == [text |-> <<>>, fields |-> NullObject]

Idle == [pc |-> "idle", user |-> NoUser, message |-> <<>>, session |-> NoRow,
         initialMode |-> Null, effectiveMode |-> Null,
         assessmentRaw |-> <<>>, assessmentAction |-> Null,
         genMode |-> Null, tried |-> <<>>, errors |-> <<>>,
         cleaned |-> <<>>, grounding |-> <<>>, threw |-> {},
         rawSources |-> <<>>, validation |-> NoValidation,
         repairedSources |-> <<>>, revalidation |-> NoValidation,
         events |-> <<>>, calls |-> NoCalls,
         kind |-> Null, response |-> <<>>, sources |-> <<>>,
         sourcesMarkdown |-> <<>>, citationBasis |-> Null,
         citationReport |-> NoValidation,
         modelUsed |-> Null, modelAttempts |-> <<>>, failedAt |-> Null,
         written |-> FALSE, ended |-> FALSE, planResult |-> NoReply]

Ev(type, text, model) == [type |-> type, text |-> text, model |-> model, detail |-> NoDetail]

\* sendEvent("error", toClientError(error))
ErrorEv(err) == [Ev("error", <<toClientError(err)>>, "") EXCEPT !.detail = toClientErrorDetail(err)]

GEMINI_MODEL == getModelName(env.GEMINI_MODEL)

modelOrder == buildModelOrder(GEMINI_MODEL, env.GEMINI_FALLBACK_MODELS)

\* The error a statement of the store throws.
StoreError == {"sqlite"}

\* The error a rejected rootSpanHandle.export() carries.
ExportError == {"export"}

\* res.end(): the handler is over; its locals become `last`.
Finish(r, locals) ==
    /\ last' = [locals EXCEPT !.pc = "done", !.ended = TRUE]
    /\ rq' = [rq EXCEPT ![r] = Idle]

\* An exception outside the try block (lines 381-486) rejects the promise of
\* the async handler: no catch, no finally.  What becomes of the response is
\* up to the framework and the runtime: `ended` says whether the connection
\* gets closed.  No event is written.
Unhandled(r, locals, at, err, ended) ==
    /\ last' = [locals EXCEPT !.pc = "done", !.kind = "unhandled", !.failedAt = at,
                               !.errors = Append(@, err), !.ended = ended]
    /\ rq' = [rq EXCEPT ![r] = Idle]

\* Faulty variant of Fail: the failed turn is counted in the session row.
FailRecording(r, locals, err) ==
    /\ Finish(r, [locals EXCEPT
            !.kind = "error",
            !.failedAt = locals.pc,
            !.errors = Append(@, err),
            !.events = Append(@, ErrorEv(err))])
    /\ sessions' = updateSession(sessions, locals.session.id,
                        [turn_count |-> locals.session.turn_count + 1])

\* catch (error): one categorized error event, nothing persisted.
Fail(r, locals, err) ==
    /\ Finish(r, [locals EXCEPT
            !.kind = "error",
            !.failedAt = locals.pc,
            !.errors = Append(@, err),
            !.events = Append(@, ErrorEv(err))])
    /\ UNCHANGED sessions

\* sendActivity(mode, [`Calling ${modelOrder[0]}`]) before a generation call.
StartGeneration(locals, mode) ==
    [locals EXCEPT !.pc = "gen", !.genMode = mode, !.tried = <<>>,
                   !.calls[mode] = @ + 1,
                   !.events = Append(@, Ev("activity", <<"Calling">>, modelOrder[1]))]

\* Faulty variant of TurnNumber: the count is not advanced.
TurnNumberKept(session) == session.turn_count

\* turnNumber (line 425)
TurnNumber(session) == session.turn_count + 1

\* Lines 424-486 and the start of the traced turn: from the loaded session
\* to the first await.  `db` is the table as the handler sees it.
Proceed(r, db, session, user, message) ==
    LET chatHistory == session.chat_history
        turnNumber == TurnNumber(session)
        initialMode == IF session.phase = "result" THEN "result" ELSE "plan"
        hasPendingPlan == /\ session.phase = "plan"
                          /\ session.plan_status = "awaiting_clarification"
                          /\ session.plan_text.str
        locals == [Idle EXCEPT !.user = user, !.message = message,
                               !.session = session, !.initialMode = initialMode,
                               !.effectiveMode = initialMode]
        answered == [locals EXCEPT
                        !.response = FixedApology,
                        !.events = <<Ev("token", FixedApology, ""), Ev("final", <<>>, "")>>]
    IN  IF Trim(message) = <<>>
        THEN \* the empty-message path: the two events, then the write, which
             \* is outside the try block
             \/ /\ sessions' = updateSession(db, session.id,
                    [chat_history |-> chatHistory
                                        \o <<[role |-> "user", content |-> message],
                                             [role |-> "assistant", content |-> FixedApology]>>,
                     trace_turns |-> addTurnToTrace(session.trace_turns,
                                        [turn |-> turnNumber, kind |-> "plan"]),
                     turn_count |-> turnNumber])
                /\ Finish(r, [answered EXCEPT !.kind = "empty", !.written = TRUE])
             \/ /\ sessions' = db
                /\ \E ended \in BOOLEAN : Unhandled(r, answered, "store", StoreError, ended)
        ELSE /\ sessions' = db
             /\ rq' = [rq EXCEPT ![r] =
                    IF initialMode = "plan" /\ hasPendingPlan
                    THEN [locals EXCEPT !.pc = "assess"]
                    ELSE StartGeneration(locals, initialMode)]
             /\ UNCHANGED last

\* The request arrives: cookie, user lookup, body, active-session lookup.
StartChat(r, user, message) ==
    /\ rq[r].pc = "idle"
    /\ budget > 0
    /\ budget' = budget - 1
    /\ IF user = NoUser
       THEN /\ Finish(r, [Idle EXCEPT
                    !.kind = "rejected",
                    !.events = <<Ev("error", <<"Please sign up first.">>, "")>>])
            /\ UNCHANGED <<sessions, nextId>>
       ELSE LET found == getActiveSessionForUser(sessions, user)
                \* !session || session.status !== "active"
                usable == {sid \in found : sessions[sid].status = "active"}
            IN  IF usable = {}
                THEN /\ rq' = [rq EXCEPT ![r] =
                            [Idle EXCEPT !.pc = "export", !.user = user,
                                         !.message = message]]
                     /\ UNCHANGED <<sessions, nextId, last>>
                ELSE /\ \E sid \in usable :
                            Proceed(r, sessions, sessions[sid], user, message)
                     /\ UNCHANGED nextId
    /\ UNCHANGED env

\* rootSpanHandle.export() resolved: createSession, then on with the turn.
NewSession(r) ==
    /\ rq[r].pc = "export"
    /\ LET row == [NoRow EXCEPT !.id = nextId, !.user_id = rq[r].user,
                                !.status = "active", !.phase = "plan",
                                !.created_at = nextId]
           db == createSession(sessions, row)
       IN  Proceed(r, db, db[row.id], rq[r].user, rq[r].message)
    /\ nextId' = nextId + 1
    /\ UNCHANGED <<env, budget>>

\* rootSpanHandle.export() rejected, or the INSERT of createSession threw:
\* lines 383-422 are outside the try block.
NewSessionThrows(r, err, ended) ==
    /\ rq[r].pc = "export"
    /\ Unhandled(r, rq[r], "export", err, ended)
    /\ UNCHANGED <<sessions, nextId, env, budget>>

\* a || b for strings held as Str / NotString: "" and null are falsy.
OrText(a, b) == IF a.str /\ a.text # <<>> THEN a ELSE b

\* Faulty variant of Persist: every turn completes the session.
PersistCompleting(db, locals, turnResult) ==
    updateSession(db, locals.session.id,
        [status |-> "complete", phase |-> "result", plan_status |-> "executed",
         turn_count |-> locals.session.turn_count + 1])

\* Faulty variant of Persist: skipPlanPersist leaves the plan columns out of
\* the update.
PersistKeepingPlan(db, locals, turnResult) ==
    LET session == locals.session
        updated == [chat_history |-> session.chat_history
                        \o <<[role |-> "user", content |-> locals.message],
                             [role |-> "assistant", content |-> turnResult.response]>>,
                    trace_turns |-> addTurnToTrace(session.trace_turns,
                        [turn |-> TurnNumber(session), kind |-> turnResult.effectiveMode]),
                    turn_count |-> TurnNumber(session)]
    IN  IF turnResult.effectiveMode = "result"
        THEN updateSession(pruneSessions(db, locals.user, RetentionKeep), session.id,
                updated @@ [status |-> "complete", phase |-> "result",
                            plan_status |-> "executed"])
        ELSE IF turnResult.skipPlanPersist
        THEN updateSession(db, session.id, updated @@ [phase |-> "plan"])
        ELSE updateSession(db, session.id,
                updated @@ [phase |-> "plan",
                            plan_text |-> OrText(turnResult.planText, session.plan_text),
                            plan_questions |-> Arr(turnResult.planQuestions),
                            plan_status |-> "awaiting_clarification"])

\* Lines 965-1059: the turn's write of the session row.  A result turn
\* prunes the user's sessions first.
Persist(db, locals, turnResult) ==
    LET session == locals.session
        turnNumber == TurnNumber(session)
        nextHistory == session.chat_history
                        \o <<[role |-> "user", content |-> locals.message],
                             [role |-> "assistant", content |-> turnResult.response]>>
        nextTurns == addTurnToTrace(session.trace_turns,
                        [turn |-> turnNumber, kind |-> turnResult.effectiveMode])
        updated == [chat_history |-> nextHistory, trace_turns |-> nextTurns,
                    turn_count |-> turnNumber]
    IN  IF turnResult.effectiveMode = "result"
        THEN updateSession(pruneSessions(db, locals.user, RetentionKeep), session.id,
                updated @@ [status |-> "complete", phase |-> "result",
                            plan_status |-> "executed"])
        ELSE IF turnResult.skipPlanPersist
        THEN updateSession(db, session.id,
                updated @@ [phase |-> "plan", plan_text |-> NotString,
                            plan_questions |-> NotArray, plan_status |-> Null])
        ELSE updateSession(db, session.id,
                updated @@ [phase |-> "plan",
                            plan_text |-> OrText(turnResult.planText, session.plan_text),
                            plan_questions |-> Arr(turnResult.planQuestions),
                            plan_status |-> "awaiting_clarification"])

\* What a failed write leaves behind: a result turn may have pruned the
\* user's sessions before the statement that threw.
StoreFailed(db, locals, turnResult) ==
    IF turnResult.effectiveMode = "result"
    THEN {db, pruneSessions(db, locals.user, RetentionKeep)}
    ELSE {db}

\* The turn produced its two closing events and returns turnResult; then the
\* write (lines 965-1059).  `stored` says whether the store accepts it: a
\* throw lands in the catch block, after the final event.
Complete(r, locals, turnResult, finalText, stored) ==
    LET closed == [locals EXCEPT
                    !.kind = turnResult.effectiveMode,
                    !.response = turnResult.response,
                    !.events = @ \o <<Ev("token", turnResult.shown, ""),
                                      Ev("final", finalText, "")>>]
    IN  IF stored
        THEN /\ sessions' = Persist(sessions, locals, turnResult)
             /\ Finish(r, [closed EXCEPT !.written = TRUE])
        ELSE /\ sessions' \in StoreFailed(sessions, locals, turnResult)
             /\ Finish(r, [closed EXCEPT
                    !.failedAt = "store",
                    !.errors = Append(@, StoreError),
                    !.events = Append(@, ErrorEv(StoreError))])

\* Faulty variant of assessmentActionOf: anything but "keep" replans.
assessmentActionStrict(parsedAssessment) ==
    IF parsedAssessment.action = "keep" THEN "keep" ELSE "replan"

\* assessmentAction (lines 525-526)
assessmentActionOf(parsedAssessment) ==
    IF parsedAssessment.action = "replan" THEN "replan" ELSE "keep"

\* assessPlanChange answered: lines 518-534.
Assess(r, reply) ==
    /\ rq[r].pc = "assess"
    /\ LET parsedAssessment == ParsedOrNull(reply)
           assessmentAction == assessmentActionOf(parsedAssessment)
           locals == [rq[r] EXCEPT !.assessmentAction = assessmentAction,
                                   !.assessmentRaw = <<reply>>,
                                   !.calls.assess = @ + 1,
                                   !.effectiveMode =
                                        IF assessmentAction = "keep" THEN "result" ELSE @]
       IN  rq' = [rq EXCEPT ![r] = StartGeneration(locals, locals.effectiveMode)]
    /\ UNCHANGED <<sessions, nextId, env, budget, last>>

\* assessPlanChange threw: the classifier call is a single generateContent
\* on GEMINI_MODEL, outside streamMarketResponse.
AssessThrows(r, err) ==
    /\ rq[r].pc = "assess"
    /\ Fail(r, [rq[r] EXCEPT !.calls.assess = @ + 1], err)
    /\ UNCHANGED <<nextId, env, budget>>

----------------------------------------------------------------------------
(* lib/agent.js streamMarketResponse, one model call per step, and what
   server.js does with its result *)

\* Faulty variant of CurrentModel: the loop never leaves the first model.
FirstModel(locals) == modelOrder[1]

\* The model the loop of streamMarketResponse calls next.
CurrentModel(locals) == modelOrder[Len(locals.tried) + 1]

\* Faulty variant of onModelFallback: the failed model is announced.
announceFailed(events, failedModel) ==
    Append(events, Ev("activity", <<"Retrying">>, failedModel))

\* onModelFallback of server.js: announce the model after the failed one.
onModelFallback(events, failedModel) ==
    LET nextIdx == IndexOf(modelOrder, failedModel) + 1
    IN  IF nextIdx <= Len(modelOrder)
        THEN Append(events, Ev("activity", <<"Retrying">>, modelOrder[nextIdx]))
        ELSE events

\* The call of the current model threw: the catch block of the loop, and
\* `throw lastError` after the last model.
GenThrows(r, err) ==
    /\ rq[r].pc = "gen"
    /\ LET model == CurrentModel(rq[r])
           tried == Append(rq[r].tried, model)
           called == [rq[r] EXCEPT
                        !.tried = tried,
                        !.calls.models = Append(@, [mode |-> rq[r].genMode, model |-> model])]
           notified == [called EXCEPT
                        !.errors = Append(@, err),
                        !.calls.fallback = Append(@, model),
                        !.events = onModelFallback(@, model)]
       IN  IF ~shouldRetryModel(err) THEN Fail(r, called, err)
           ELSE IF Len(tried) = Len(modelOrder) THEN Fail(r, notified, err)
           ELSE /\ rq' = [rq EXCEPT ![r] = notified]
                /\ UNCHANGED <<sessions, last>>
    /\ UNCHANGED <<nextId, env, budget>>

\* Faulty variant of Returned: the attempts leave out the model that answered.
ReturnedTried(locals) ==
    [locals EXCEPT
        !.calls.models = Append(@, [mode |-> locals.genMode, model |-> CurrentModel(locals)]),
        !.modelUsed = CurrentModel(locals),
        !.modelAttempts = locals.tried]

\* The result streamMarketResponse returns when the current model answers.
Returned(locals) ==
    LET model == CurrentModel(locals)
    IN  [locals EXCEPT
            !.calls.models = Append(@, [mode |-> locals.genMode, model |-> model]),
            !.modelUsed = model,
            !.modelAttempts = locals.tried \o <<model>>]

\* Faulty variant of NonBlank: the array as it came, blank entries included.
AllItems(arr) == IF arr.arr THEN arr.items ELSE <<>>

\* Array filter  (x) => typeof x === "string" && x.trim()  over texts.
NonBlank(arr) == IF arr.arr THEN SelectSeq(arr.items, LAMBDA q : Trim(q) # <<>>) ELSE <<>>

\* planText.replace(/\n{3,}/g, "\n\n")
CollapseNewlines(text) ==
    [i \in 1..Len(text) |-> IF text[i] = "\n\n\n" THEN "\n\n" ELSE text[i]]

\* The plan-mode call answered: lines 559-701, then the write.
PlanOk(r, reply, stored) ==
    /\ rq[r].pc = "gen"
    /\ rq[r].genMode = "plan"
    /\ LET locals == [Returned(rq[r]) EXCEPT !.planResult = reply]
           parsedPlan == ParsedOrNull(reply)
           apologyText == IF parsedPlan.apology.str
                          THEN Trim(parsedPlan.apology.text) ELSE <<>>
           planActivity == NonBlank(parsedPlan.activity)
           withActivity == [locals EXCEPT !.events =
                                IF planActivity # <<>>
                                THEN Append(@, Ev("activity", <<"steps">>, locals.modelUsed))
                                ELSE @]
           clarifyingQuestions == NonBlank(parsedPlan.clarifying_questions)
           planText == IF parsedPlan.plan.str
                       THEN CollapseNewlines(Trim(parsedPlan.plan.text)) ELSE <<>>
           planDisplay == <<"### Plan">> \o planText \o <<"**">> \o Head(clarifyingQuestions)
           apologyResult(text) ==
                [response |-> text, shown |-> text, effectiveMode |-> "apology",
                 planText |-> NotString, planQuestions |-> <<>>,
                 skipPlanPersist |-> TRUE]
       IN  IF apologyText # <<>>
           THEN Complete(r, locals, apologyResult(apologyText), <<>>, stored)
           ELSE IF planText = <<>> \/ clarifyingQuestions = <<>>
           THEN Complete(r, withActivity, apologyResult(FixedApology), <<>>, stored)
           ELSE Complete(r, withActivity,
                    [response |-> planDisplay, shown |-> planDisplay,
                     effectiveMode |-> "plan", planText |-> Str(planText),
                     planQuestions |-> clarifyingQuestions,
                     skipPlanPersist |-> FALSE],
                    <<>>, stored)
    /\ UNCHANGED <<nextId, env, budget>>

\* Does the cleaned result text read as an out-of-domain refusal.
IsRefusal(cleaned) ==
    \/ \E i \in 1..Len(cleaned) : cleaned[i] = "marker"
    \/ (cleaned # <<>> /\ Head(cleaned) = "sorry")

\* The result-mode call answered: lines 734-800.
ResultOk(r, reply, stored) ==
    /\ rq[r].pc = "gen"
    /\ rq[r].genMode = "result"
    /\ LET locals == Returned(rq[r])
           resultActivityJson == extractJsonBlock(reply.text)
           resultActivity == NonBlank(ParsedOrNull(reply).activity)
           withActivity == [locals EXCEPT !.events =
                                IF resultActivity # <<>>
                                THEN Append(@, Ev("activity", <<"steps">>, locals.modelUsed))
                                ELSE @]
           cleaned == stripSourcesSection(RemoveBlock(reply.text, resultActivityJson))
       IN  IF IsRefusal(cleaned)
           THEN Complete(r, withActivity,
                    [response |-> cleaned, shown |-> cleaned,
                     effectiveMode |-> "apology",
                     planText |-> locals.session.plan_text, planQuestions |-> <<>>,
                     skipPlanPersist |-> TRUE],
                    <<>>, stored)
           ELSE /\ rq' = [rq EXCEPT ![r] =
                        [withActivity EXCEPT !.pc = "gensrc", !.cleaned = cleaned,
                                             !.grounding = reply.grounding]]
                /\ UNCHANGED <<sessions, last>>
    /\ UNCHANGED <<nextId, env, budget>>

----------------------------------------------------------------------------
(* server.js: the citation pipeline of a result turn, lines 796-956 *)

\* generateSourcesForResult answered with `gathered`; a throw is caught and
\* counts as no sources.  Without generated sources the grounding is used.
GenSources(r, gathered, throws) ==
    /\ rq[r].pc = "gensrc"
    /\ LET gatheredSources == IF throws THEN <<>> ELSE gathered
           rawSources == IF gatheredSources # <<>> THEN gatheredSources
                         ELSE extractSources(rq[r].grounding)
       IN  rq' = [rq EXCEPT ![r] =
                [@ EXCEPT !.pc = "validate", !.rawSources = rawSources,
                          !.calls.srcgen = @ + 1,
                          !.threw = IF throws THEN @ \cup {"srcgen"} ELSE @]]
    /\ UNCHANGED <<sessions, nextId, env, budget, last>>

\* Faulty variant of NeedsRepair: only an invalid source triggers the repair.
NeedsRepairInvalidOnly(validation) == Len(validation.invalid) > 0

\* Is the repair path taken after the first validation.
NeedsRepair(validation) ==
    Len(validation.invalid) > 0 \/ Len(validation.valid) < MinValidSources

\* Faulty variant of FallbackSources: the original candidates come first.
FallbackRawFirst(invalid, repairedSources, rawSources) ==
    IF Len(rawSources) > 0 THEN rawSources
    ELSE IF Len(repairedSources) > 0 THEN repairedSources
    ELSE invalid

\* The sources that go out when no source of the authoritative pass is valid.
FallbackSources(invalid, repairedSources, rawSources) ==
    IF Len(invalid) > 0 THEN invalid
    ELSE IF Len(repairedSources) > 0 THEN repairedSources
    ELSE rawSources

\* Lines 876-956 and the write: select the sources, emit, persist.
FinishResult(r, locals, valid, invalid, stored) ==
    LET picked == Take(withDomains(valid), SourceLimit)
        fallback == FallbackSources(invalid, locals.repairedSources, locals.rawSources)
        sources == IF Len(picked) > 0 THEN picked
                   ELSE Take(withDomains(fallback), SourceLimit)
        sourcesMarkdown ==
            IF Len(picked) > 0 THEN formatSourcesMarkdown(picked)
            ELSE IF Len(sources) > 0 THEN RelabelUnverified(formatSourcesMarkdown(sources))
            ELSE <<"**Sources:** (unavailable)">>
        citationBasis ==
            IF Len(picked) > 0 THEN "valid"
            ELSE IF Len(sources) = 0 THEN "none"
            ELSE IF Len(invalid) > 0 THEN "invalid"
            ELSE IF Len(locals.repairedSources) > 0 THEN "repaired"
            ELSE "raw"
        finalText == locals.cleaned \o sourcesMarkdown
    IN  Complete(r,
            [locals EXCEPT !.sources = sources, !.sourcesMarkdown = sourcesMarkdown,
                           !.citationBasis = citationBasis,
                           !.citationReport = [valid |-> valid, invalid |-> invalid]],
            [response |-> finalText, shown |-> locals.cleaned,
             effectiveMode |-> "result",
             planText |-> locals.session.plan_text, planQuestions |-> <<>>,
             skipPlanPersist |-> FALSE],
            sourcesMarkdown, stored)

\* validateSources(rawSources) answered: repair, or finish with this pass.
Validate(r, probes, stored) ==
    /\ rq[r].pc = "validate"
    /\ LET n == Len(rq[r].rawSources)
           validation == validateSources(rq[r].rawSources,
                            [i \in 1..n |-> fetchWithFallback(probes[i])])
           locals == [rq[r] EXCEPT !.validation = validation,
                                   !.calls.probes = @ + n]
       IN  IF NeedsRepair(validation)
           THEN /\ rq' = [rq EXCEPT ![r] = [locals EXCEPT !.pc = "repair"]]
                /\ UNCHANGED <<sessions, last>>
           ELSE FinishResult(r, locals, validation.valid, validation.invalid, stored)
    /\ UNCHANGED <<nextId, env, budget>>

\* repairSources of lib/agent.js on a reply: the sources of the parsed block
\* that carry a url; none without a block or without a "sources" array.
repairSources(reply) ==
    LET jsonBlock == extractJsonBlock(reply.text)
        parsed == IF jsonBlock = <<"{", "}">> THEN EmptyObject ELSE reply.fields
    IN  IF jsonBlock = <<>> THEN <<>>
        ELSE IF ~parsed.sources.arr THEN <<>>
        ELSE LET urls == SelectSeq(parsed.sources.items, LAMBDA u : u # NoUrl)
             IN  [i \in 1..Len(urls) |-> [url |-> urls[i]]]

\* JSON.parse(jsonBlock) inside repairSources throws on a malformed block.
repairSourcesThrows(reply) ==
    LET jsonBlock == extractJsonBlock(reply.text)
    IN  jsonBlock # <<>> /\ ~JsonParses(jsonBlock)

\* The repair call answered (line 845 has no try/catch around it).
Repair(r, reply) ==
    /\ rq[r].pc = "repair"
    /\ LET locals == [rq[r] EXCEPT !.calls.repair = @ + 1]
       IN  IF repairSourcesThrows(reply)
           THEN Fail(r, [locals EXCEPT !.threw = @ \cup {"repair"}], {"syntaxerror"})
           ELSE /\ rq' = [rq EXCEPT ![r] =
                        [locals EXCEPT !.pc = "revalidate",
                                       !.repairedSources = repairSources(reply)]]
                /\ UNCHANGED <<sessions, last>>
    /\ UNCHANGED <<nextId, env, budget>>

\* The generateContent call of repairSources threw.
RepairThrows(r, err) ==
    /\ rq[r].pc = "repair"
    /\ Fail(r, [rq[r] EXCEPT !.calls.repair = @ + 1, !.threw = @ \cup {"repair"}], err)
    /\ UNCHANGED <<nextId, env, budget>>

\* Faulty variant of Authoritative: the first validation stays in force.
FirstPass(validation, repairedValidation) == validation

\* Lines 872-873: after a repair the second validation replaces the first.
Authoritative(validation, repairedValidation) == repairedValidation

\* validateSources(repaired) answered: its partition is the one that counts.
Revalidate(r, probes, stored) ==
    /\ rq[r].pc = "revalidate"
    /\ LET n == Len(rq[r].repairedSources)
           repairedValidation == validateSources(rq[r].repairedSources,
                            [i \in 1..n |-> fetchWithFallback(probes[i])])
           locals == [rq[r] EXCEPT !.revalidation = repairedValidation,
                                   !.calls.probes = @ + n]
           final == Authoritative(rq[r].validation, repairedValidation)
       IN  FinishResult(r, locals, final.valid, final.invalid, stored)
    /\ UNCHANGED <<nextId, env, budget>>

----------------------------------------------------------------------------
(* The clients and the specification *)

\* No library call was made.
NoCall == [op |-> Null, user |-> NoUser, keep |-> 0, before |-> <<>>,
           message |-> <<>>, history |-> <<>>, result |-> <<>>,
           sources |-> <<>>, sites |-> <<>>, requests |-> <<>>,
           primary |-> "", fallbackValue |-> <<>>]

\* Server processes that share the database file (the volume outlives a
\* deploy): each runs one /api/signup handler at a time, to completion.
Procs == {1, 2}

\* The locals of a signup handler and its response.
NoSignup == [pc |-> "idle", base |-> <<>>, normalized |-> <<>>, i |-> 0,
             collisions |-> 0, candidate |-> <<>>, unique |-> Null,
             status |-> 0, error |-> "", cookie |-> Null]

\* Lines 75-79 at process start; `now` is Date.now(), `failures` the times
\* at which onFlushError was called and `disableCalls` the number of calls of
\* state.disable().
BT_ERROR_WINDOW_MS == 2
BT_ERROR_THRESHOLD == 3
MaxTime == 7
MaxFailures == 4

NoFlushErrors == [now |-> 1, btErrorCount |-> 0, btErrorWindowStart |-> 0,
                  btDisabled |-> FALSE, failures |-> <<>>, disableCalls |-> 0]

\* Nothing has happened outside the chat handler.
SideInit ==
    /\ users = <<>>
    /\ su = [p \in Procs |-> NoSignup]
    /\ bt = NoFlushErrors
    /\ call = NoCall

\* The process as configured by default (no GEMINI_MODEL, no
\* GEMINI_FALLBACK_MODELS in the environment).
DefaultEnv == [scope |-> "sessions", GEMINI_MODEL |-> "", GEMINI_FALLBACK_MODELS |-> <<>>,
               maxUrls |-> MaxUrls]

Init ==
    /\ sessions = <<>>
    /\ nextId = 1
    /\ env = DefaultEnv
    /\ budget = MaxRequests
    /\ rq = [r \in Reqs |-> Idle]
    /\ last = Idle
    /\ SideInit

\* Requests are served one after another: a request starts when no handler
\* is in flight.
Serial == \A r \in Reqs : rq[r].pc = "idle"

Next ==
    \/ /\ \E user \in Users \cup {NoUser}, body \in Bodies(env.scope) :
            Serial /\ StartChat(1, user, BodyMessage(body))
       /\ UNCHANGED side
    \/ /\ \E r \in Reqs : NewSession(r)
       /\ UNCHANGED side
    \/ /\ \E r \in Reqs, err \in {ExportError, StoreError}, ended \in BOOLEAN :
            NewSessionThrows(r, err, ended)
       /\ UNCHANGED side
    \/ /\ \E r \in Reqs, reply \in AssessReplies(env.scope) : Assess(r, reply)
       /\ UNCHANGED side
    \/ /\ \E r \in Reqs, err \in Errors(env.scope) : AssessThrows(r, err)
       /\ UNCHANGED side
    \/ /\ \E r \in Reqs, err \in Errors(env.scope) : GenThrows(r, err)
       /\ UNCHANGED side
    \/ /\ \E r \in Reqs, reply \in PlanReplies(env.scope), stored \in BOOLEAN :
            PlanOk(r, reply, stored)
       /\ UNCHANGED side
    \/ /\ \E r \in Reqs, reply \in ResultReplies(env.scope, env.maxUrls), stored \in BOOLEAN :
            ResultOk(r, reply, stored)
       /\ UNCHANGED side
    \/ /\ \E r \in Reqs, gathered \in SourceLists(env.scope, env.maxUrls), throws \in BOOLEAN :
            GenSources(r, gathered, throws)
       /\ UNCHANGED side
    \/ /\ \E r \in Reqs, stored \in BOOLEAN : \E probes \in Probes(env.scope, Len(rq[r].rawSources)) :
            Validate(r, probes, stored)
       /\ UNCHANGED side
    \/ /\ \E r \in Reqs, reply \in RepairReplies(env.scope, env.maxUrls) : Repair(r, reply)
       /\ UNCHANGED side
    \/ /\ \E r \in Reqs, err \in Errors(env.scope) : RepairThrows(r, err)
       /\ UNCHANGED side
    \/ /\ \E r \in Reqs, stored \in BOOLEAN : \E probes \in Probes(env.scope, Len(rq[r].repairedSources)) :
            Revalidate(r, probes, stored)
       /\ UNCHANGED side

Spec == Init /\ [][Next]_vars

\* A request arrives while a handler of the same user is suspended at an
\* await: the server takes it into a free slot.  (Handlers of different
\* users read and write different rows.)
ConcStart ==
    /\ \E r \in Reqs, other \in Reqs, body \in Bodies(env.scope) :
            /\ rq[other].pc # "idle"
            /\ StartChat(r, rq[other].user, BodyMessage(body))
    /\ UNCHANGED side

\* The handlers interleave at their awaits: every step of Next, and requests
\* that start while a handler is in flight.
ConcNext == Next \/ ConcStart

----------------------------------------------------------------------------
(* Specifications that explore one request (budget = 1) with the full range
   of one kind of input.  They start from states Spec reaches: no session at
   all, or user u1 with a session whose plan awaits clarification (after one
   plan turn). *)

PendingRow ==
    [NoRow EXCEPT
        !.id = 1, !.user_id = "u1", !.status = "active", !.phase = "plan",
        !.turn_count = 1, !.created_at = 1,
        !.chat_history = <<[role |-> "user", content |-> <<"crm">>],
                           [role |-> "assistant",
                            content |-> <<"### Plan", "P", "**", "q1">>]>>,
        !.trace_turns = <<[turn |-> 1, kind |-> "plan"]>>,
        !.plan_text = Str(<<"P">>), !.plan_questions = Arr(<<<<"q1">>>>),
        !.plan_status = "awaiting_clarification"]

PendingDb == createSession(<<>>, PendingRow)

TurnStart(e) ==
    /\ env = e
    /\ budget = 1
    /\ rq = [r \in Reqs |-> Idle]
    /\ last = Idle
    /\ SideInit
    /\ \/ sessions = <<>> /\ nextId = 1
       \/ sessions = PendingDb /\ nextId = 2

\* Every message, classifier reply, plan reply and result text.
TurnInit == TurnStart([DefaultEnv EXCEPT !.scope = "turn"])

TurnSpec == TurnInit /\ [][Next]_vars

MaxConcRequests == 2    \* chat requests per run where the handlers interleave

\* Interleaved handlers: MaxConcRequests requests, on no session at all or on
\* the pending plan of user u1.
ConcInit ==
    /\ env = DefaultEnv
    /\ budget = MaxConcRequests
    /\ rq = [r \in Reqs |-> Idle]
    /\ last = Idle
    /\ SideInit
    /\ \/ sessions = <<>> /\ nextId = 1
       \/ sessions = PendingDb /\ nextId = 2

ConcSpec == ConcInit /\ [][ConcNext]_vars

\* Every configuration of the model order and every error.
ModelInit ==
    \E primary \in {"", "gemini-2.5-flash", "gemini-pro"},
       fallbacks \in {<<>>, <<"gemini-extra">>,
                      <<"", "gemini-2.5-flash-lite", "gemini-extra", "gemini-extra">>} :
        TurnStart([DefaultEnv EXCEPT !.scope = "models", !.GEMINI_MODEL = primary,
                                     !.GEMINI_FALLBACK_MODELS = fallbacks])

ModelSpec == ModelInit /\ [][Next]_vars

\* Every source list, grounding, repair reply and probe outcome.
CiteInit == TurnStart([DefaultEnv EXCEPT !.scope = "citations", !.maxUrls = MaxCiteUrls])

CiteSpec == CiteInit /\ [][Next]_vars

----------------------------------------------------------------------------
(* Library calls on their own, one call per behaviour: pruneSessions of
   lib/db.js on any table (PruneSpec), inferCategory of lib/username.js on
   any message and history (CategorySpec). *)

\* The sessions tables of up to MaxRows rows: row i belongs to some user and
\* has some creation time (two rows may share one).
Tables ==
    UNION {[1..n -> {[NoRow EXCEPT !.id = 0, !.user_id = u, !.status = "complete",
                                   !.phase = "result", !.created_at = t] :
                        u \in Users, t \in 1..MaxStamp}] : n \in 0..MaxRows}

\* A table as stored: every row carries its own id.
WithIds(table) == [id \in DOMAIN table |-> [table[id] EXCEPT !.id = id]]

\* Messages and history contents of a category lookup.
CategoryTexts ==
    {<<>>, <<" ">>, <<"crm">>, <<"yes">>, <<" ", "ok", " ", "go", " ">>,
     <<"yes", " ", "to", " ", "crm", " ", "and", " ", "erp">>}

Histories ==
    UNION {[1..n -> {[role |-> ro, content |-> c] :
                        ro \in {"user", "assistant"},
                        c \in {<<"crm">>, <<"erp">>, <<"yes">>, <<>>}}] : n \in 0..MaxHistory}

LibInit(tables) ==
    /\ \E table \in tables : sessions = WithIds(table)
    /\ nextId = 1
    /\ env = [DefaultEnv EXCEPT !.scope = "library"]
    /\ budget = 0
    /\ rq = [r \in Reqs |-> Idle]
    /\ last = Idle
    /\ SideInit

\* pruneSessions(db, userId, keep)
PruneCall(userId, keep) ==
    /\ call = NoCall
    /\ sessions' = pruneSessions(sessions, userId, keep)
    /\ call' = [NoCall EXCEPT !.op = "pruneSessions", !.user = userId, !.keep = keep,
                              !.before = sessions]
    /\ UNCHANGED <<nextId, env, budget, rq, last, users, su, bt>>

\* inferCategory(message, chatHistory)
InferCall(message, chatHistory) ==
    /\ call = NoCall
    /\ call' = [NoCall EXCEPT !.op = "inferCategory", !.message = message,
                              !.history = chatHistory,
                              !.result = inferCategory(message, chatHistory)]
    /\ UNCHANGED <<sessions, nextId, env, budget, rq, last, users, su, bt>>

\* validateSources(sources) of lib/agent.js, where the site of source i
\* answers the fetches as sites[i] says.
ValidateCall(sources, sites) ==
    /\ call = NoCall
    /\ call' = [NoCall EXCEPT
                !.op = "validateSources", !.sources = sources, !.sites = sites,
                !.requests = [i \in 1..Len(sources) |-> fetchRequests(sites[i])],
                !.result = validateSources(sources,
                    [i \in 1..Len(sources) |-> fetchWithFallback(ProbeOf(sites[i]))])]
    /\ UNCHANGED <<sessions, nextId, env, budget, rq, last, users, su, bt>>

PruneInit == LibInit(Tables)

PruneNext ==
    \E userId \in Users, keep \in 0..MaxKeep \cup {RetentionKeep} : PruneCall(userId, keep)

PruneSpec == PruneInit /\ [][PruneNext]_vars

CategoryInit == LibInit({<<>>})

CategoryNext ==
    /\ call = NoCall
    /\ \E message \in CategoryTexts, chatHistory \in Histories :
            InferCall(message, chatHistory)

CategorySpec == CategoryInit /\ [][CategoryNext]_vars

MaxProbed == 3

\* One call of validateSources on up to MaxProbed sources, every outcome of
\* the two fetches per source.
ValidateNext ==
    /\ call = NoCall
    /\ \E n \in 0..MaxProbed :
        \E sites \in [1..n -> [head : ProbeOutcomes, get : ProbeOutcomes]] :
            ValidateCall(SrcList(n), sites)

ValidateSpec == CategoryInit /\ [][ValidateNext]_vars

MaxFallbacks == 3

\* The model names of the environment; "" is an unset variable or a blank
\* entry of the comma-separated list.
ModelNames == {"", "gemini-2.5-flash", "gemini-2.5-flash-lite", "gemini-extra", "gemini-pro"}

\* The module-level constants of server.js (lines 46-47 and the model order)
\* for one environment: GEMINI_MODEL and the list the turns iterate over.
OrderCall(envModel, fallbackValue) ==
    /\ call' = [NoCall EXCEPT
                !.op = "buildModelOrder", !.primary = getModelName(envModel),
                !.fallbackValue = fallbackValue,
                !.result = buildModelOrder(getModelName(envModel), fallbackValue)]
    /\ UNCHANGED <<sessions, nextId, env, budget, rq, last, users, su, bt>>

\* One start of the process with any GEMINI_MODEL and any list of up to
\* MaxFallbacks entries in GEMINI_FALLBACK_MODELS.
OrderNext ==
    /\ call = NoCall
    /\ \E envModel \in ModelNames, n \in 0..MaxFallbacks :
        \E fallbackValue \in [1..n -> ModelNames] : OrderCall(envModel, fallbackValue)

OrderSpec == CategoryInit /\ [][OrderNext]_vars

(* Signup: generateUniqueUsername with any lookup function (UsernameSpec),
   and the /api/signup handlers of the processes on one users table
   (SignupSpec).  The statements of a handler are its steps; the statements of
   another process may fall between them. *)

\* Base names a client may send.
Names(scope) ==
    IF scope = "username"
    THEN {<<>>, <<" ">>, <<"!", "!">>, <<"A", "t">>, <<" ", "A", " ", "t", "!", " ">>,
          <<"a", "1">>, <<"9">>, <<"T", "a">>}
    ELSE {<<"A", "t">>, <<" ", "a", "t", "!">>, <<"!">>}

SignupBodies(scope) == {NotString} \cup {Str(n) : n \in Names(scope)}

\* Lines 272-275 and username.js 46-48: the base name, its normalized form;
\* an empty one returns null without a lookup.
SignupStart(p, body) ==
    /\ su[p].pc \in {"idle", "done"}
    /\ LET base == IF body.str THEN body.text ELSE <<>>
           normalized == normalizeBaseName(base)
           begun == [NoSignup EXCEPT !.base = base, !.normalized = normalized]
       IN  su' = [su EXCEPT ![p] =
                IF normalized = <<>>
                THEN [begun EXCEPT !.pc = "done",
                        !.status = IF env.scope = "signup" THEN 400 ELSE 0,
                        !.error = IF env.scope = "signup"
                                  THEN "Please enter a different name." ELSE ""]
                ELSE [begun EXCEPT !.pc = "lookup"]]
    /\ UNCHANGED <<sessions, nextId, env, budget, rq, last, users, bt, call>>

\* username.js 49-54: one round of the loop.  The handler's lookupFn is
\* getUserByUsernameKey; on its own the function gets any answer.
SignupLookup(p, digits, answer) ==
    /\ su[p].pc = "lookup"
    /\ LET candidate == su[p].normalized \o digits
           exists == IF env.scope = "signup"
                     THEN getUserByUsernameKey(users, candidate) # {}
                     ELSE answer
           looked == [su[p] EXCEPT !.i = @ + 1, !.candidate = candidate]
       IN  su' = [su EXCEPT ![p] =
                IF ~exists
                THEN [looked EXCEPT !.unique = candidate,
                        !.pc = IF env.scope = "signup" THEN "insert" ELSE "done"]
                ELSE IF looked.i < LookupLimit
                THEN [looked EXCEPT !.collisions = @ + 1]
                ELSE [looked EXCEPT !.collisions = @ + 1, !.pc = "done",
                        !.status = IF env.scope = "signup" THEN 400 ELSE 0,
                        !.error = IF env.scope = "signup"
                                  THEN "Please enter a different name." ELSE ""]]
    /\ UNCHANGED <<sessions, nextId, env, budget, rq, last, users, bt, call>>

\* Lines 280-298: createUser in try/catch, the cookie and the response.
SignupInsert(p) ==
    /\ su[p].pc = "insert"
    /\ IF createUserThrows(users, su[p].unique)
       THEN /\ users' = users
            /\ su' = [su EXCEPT ![p] = [@ EXCEPT !.pc = "done", !.status = 400,
                                                 !.error = "Name already taken."]]
       ELSE /\ users' = createUser(users, su[p].unique, su[p].unique)
            /\ su' = [su EXCEPT ![p] = [@ EXCEPT !.pc = "done", !.status = 200,
                                                 !.cookie = su[p].unique]]
    /\ UNCHANGED <<sessions, nextId, env, budget, rq, last, bt, call>>

SignupInit(scope) ==
    /\ sessions = <<>>
    /\ nextId = 1
    /\ env = [DefaultEnv EXCEPT !.scope = scope]
    /\ budget = 0
    /\ rq = [r \in Reqs |-> Idle]
    /\ last = Idle
    /\ SideInit

UsernameInit == SignupInit("username")

\* One call of generateUniqueUsername.
UsernameNext ==
    \/ \E body \in SignupBodies("username") : su[1].pc = "idle" /\ SignupStart(1, body)
    \/ \E digits \in randomDigits, answer \in BOOLEAN : SignupLookup(1, digits, answer)

UsernameSpec == UsernameInit /\ [][UsernameNext]_vars

\* Signups of the processes, one after another in each process.
SignupNext ==
    \/ \E p \in Procs, body \in SignupBodies("signup") : SignupStart(p, body)
    \/ \E p \in Procs, digits \in randomDigits : SignupLookup(p, digits, FALSE)
    \/ \E p \in Procs : SignupInsert(p)

SignupSpec == SignupInit("signup") /\ [][SignupNext]_vars

(* The circuit breaker of the observability logger, lines 75-102: the clock
   and the flush failures of the background logger. *)

\* Faulty variant of WindowExpired: a window, once opened, never expires.
WindowNeverExpires(b) == b.btErrorWindowStart = 0

\* !btErrorWindowStart || now - btErrorWindowStart > BT_ERROR_WINDOW_MS
WindowExpired(b) ==
    \/ b.btErrorWindowStart = 0
    \/ b.now - b.btErrorWindowStart > BT_ERROR_WINDOW_MS

\* bgLogger.onFlushError
onFlushError ==
    /\ Len(bt.failures) < MaxFailures
    /\ LET opened == IF WindowExpired(bt)
                     THEN [bt EXCEPT !.btErrorWindowStart = bt.now, !.btErrorCount = 0]
                     ELSE bt
           counted == [opened EXCEPT !.btErrorCount = @ + 1,
                                     !.failures = Append(@, bt.now)]
       IN  bt' = IF ~counted.btDisabled /\ counted.btErrorCount >= BT_ERROR_THRESHOLD
                 THEN [counted EXCEPT !.btDisabled = TRUE, !.disableCalls = @ + 1]
                 ELSE counted
    /\ UNCHANGED <<sessions, nextId, env, budget, rq, last, users, su, call>>

\* Time passes.
Tick ==
    /\ bt.now < MaxTime
    /\ bt' = [bt EXCEPT !.now = @ + 1]
    /\ UNCHANGED <<sessions, nextId, env, budget, rq, last, users, su, call>>

BreakerInit == SignupInit("breaker")

BreakerNext == onFlushError \/ Tick

BreakerSpec == BreakerInit /\ [][BreakerNext]_vars

----------------------------------------------------------------------------
(* Properties *)

ActiveSessions(db, userId) ==
    {id \in SessionsOfUser(db, userId) : db[id].status = "active"}

\* The requests whose locals exist: the one that finished last and those in flight.
Turns == {last} \cup {rq[r] : r \in Reqs}

Finished(l) == l.pc = "done"

HasEvent(l, type) == \E i \in 1..Len(l.events) : l.events[i].type = type

Urls(list) == {list[i].url : i \in 1..Len(list)}

\* The text is empty or whitespace only.
Blank(text) == \A i \in 1..Len(text) : text[i] = " "

\* C1: with requests served one after another, every user has at most one
\* session with status = active in every reachable state, and every step that
\* inserts a session inserts it for a user for whom getActiveSessionForUser
\* finds no active session.
C1_OneActiveSession ==
    /\ [](\A u \in Users : Cardinality(ActiveSessions(sessions, u)) <= 1)
    /\ [][\A id \in DOMAIN sessions' \ DOMAIN sessions :
            /\ sessions'[id].user_id \in Users
            /\ ActiveSessions(sessions, sessions'[id].user_id) = {}]_vars

\* A user with a completed session and, after a later request, an active one.
C1_Witness ==
    \E u \in Users :
        /\ Cardinality(ActiveSessions(sessions, u)) = 1
        /\ \E id \in SessionsOfUser(sessions, u) : sessions[id].status = "complete"

\* C2: a session goes from active to complete only in the step that ends a
\* turn of kind result on that session; a complete session stays complete (so
\* the change happens at most once), and a session is never created complete.
C2_CompleteOnlyByResult ==
    [][/\ \A id \in DOMAIN sessions \cap DOMAIN sessions' :
            /\ sessions[id].status = "complete" => sessions'[id].status = "complete"
            /\ (sessions[id].status = "active" /\ sessions'[id].status = "complete")
                => /\ Finished(last')
                   /\ last'.kind = "result"
                   /\ last'.session.id = id
                   /\ last'.written
                   /\ \E r \in Reqs : /\ rq[r].pc \in {"validate", "revalidate"}
                                      /\ rq[r].session.id = id
                                      /\ rq'[r].pc = "idle"
       /\ \A id \in DOMAIN sessions' \ DOMAIN sessions :
            sessions'[id].status = "active"]_vars

\* A session completed by the result turn that finished last, after an
\* earlier plan turn that left it active.
C2_Witness ==
    /\ Finished(last)
    /\ last.kind = "result"
    /\ last.session.status = "active"
    /\ last.session.turn_count >= 1
    /\ sessions[last.session.id].status = "complete"

\* The turn of a non-empty message got as far as its final event.
Processed(l) == Finished(l) /\ ~Blank(l.message) /\ HasEvent(l, "final")

\* C3 (as stated): after every non-empty message processed to a final event
\* the persisted turn_count is its value before the turn plus 1.
C3_TurnCountAlwaysAdvances ==
    Processed(last) =>
        /\ last.session.id \in DOMAIN sessions
        /\ sessions[last.session.id].turn_count = last.session.turn_count + 1

\* C3: after every non-empty message processed to a final event (plan,
\* result or apology turn) the persisted turn_count is its value before the
\* turn plus exactly 1 if the write that follows the final event succeeded;
\* if that write threw, an error event follows the final event and turn_count
\* is what it was.
C3_TurnCountAdvancesWhenWritten ==
    Processed(last) =>
        /\ last.kind \in {"plan", "result", "apology"}
        /\ last.session.id \in DOMAIN sessions
        /\ IF last.written
           THEN /\ sessions[last.session.id].turn_count = last.session.turn_count + 1
                /\ ~HasEvent(last, "error")
           ELSE /\ sessions[last.session.id].turn_count = last.session.turn_count
                /\ last.events[Len(last.events)].type = "error"

\* A result-mode apology on a session that had one turn: the count is now 2.
C3_Witness ==
    /\ Processed(last)
    /\ last.written
    /\ last.kind = "apology"
    /\ last.genMode = "result"
    /\ sessions[last.session.id].turn_count = 2

PendingPlan(l) ==
    /\ l.session.plan_status = "awaiting_clarification"
    /\ l.session.plan_text.str
    /\ l.session.plan_text.text # <<>>

\* The classifier reply carries a block that parses to action = replan.
VerdictReplan(reply) ==
    LET block == extractJsonBlock(reply.text)
    IN  /\ block # <<>>
        /\ JsonParses(block)
        /\ block # <<"{", "}">>
        /\ reply.fields.action = "replan"

\* C5: in a turn on a session with a pending plan, once the classifier has
\* answered: a reply that parses to action = replan is followed by the plan
\* generation call and no result generation call; any other reply (keep, no
\* parseable block, another action) by the result generation call and no
\* plan generation call.
C5_VerdictSelectsMode ==
    \A l \in Turns :
        (PendingPlan(l) /\ l.assessmentRaw # <<>>) =>
            IF VerdictReplan(l.assessmentRaw[1])
            THEN l.calls.plan = 1 /\ l.calls.result = 0 /\ l.genMode = "plan"
            ELSE l.calls.plan = 0 /\ l.calls.result = 1 /\ l.genMode = "result"

\* The classifier's reply says replan in a block that does not parse: the
\* turn went on to a result.
C5_Witness ==
    /\ Finished(last)
    /\ PendingPlan(last)
    /\ last.assessmentRaw # <<>>
    /\ last.assessmentRaw[1].fields.action = "replan"
    /\ ~VerdictReplan(last.assessmentRaw[1])
    /\ last.kind = "result"

CalledModels(l) == [i \in 1..Len(l.calls.models) |-> l.calls.models[i].model]

\* C6: when streamMarketResponse has returned after k failed calls, the k
\* failures were transient and hit the first k models of the order, the
\* attempts are the first k+1 models in order, the model used is model k+1,
\* and the models called are exactly those k+1, in order.
C6_FallbackReturnsFirstSuccess ==
    \A l \in Turns :
        l.modelUsed # Null =>
            LET k == Len(l.tried)
            IN  /\ k < Len(modelOrder)
                /\ \A i \in 1..k : l.errors[i] \cap RetryVocabulary # {}
                /\ l.modelAttempts = SubSeq(modelOrder, 1, k + 1)
                /\ l.modelUsed = modelOrder[k + 1]
                /\ CalledModels(l) = SubSeq(modelOrder, 1, k + 1)

\* Two transient failures, then the third model of the order answered.
C6_Witness ==
    /\ Finished(last)
    /\ Len(modelOrder) > 3
    /\ Len(last.tried) = 2
    /\ last.modelUsed = modelOrder[3]
    /\ last.modelAttempts = SubSeq(modelOrder, 1, 3)

\* C7: a model call that fails with an error outside the transient
\* vocabulary is the last call of streamMarketResponse: the turn ends at once
\* with that error, no later model is called, and the fallback callback was
\* invoked for the earlier (transient) failures only.
C7_FatalErrorPropagates ==
    \A l \in Turns :
        \A i \in 1..Len(l.tried) :
            l.errors[i] \cap RetryVocabulary = {} =>
                /\ i = Len(l.tried)
                /\ Finished(l)
                /\ l.kind = "error"
                /\ l.failedAt = "gen"
                /\ l.modelUsed = Null
                /\ CalledModels(l) = SubSeq(modelOrder, 1, i)
                /\ l.calls.fallback = SubSeq(modelOrder, 1, i - 1)
                /\ l.events[Len(l.events)] = ErrorEv(l.errors[i])

\* The second model failed with a rate-limit error while later models were
\* left: the callback ran for the first failure only.
C7_Witness ==
    /\ Finished(last)
    /\ last.failedAt = "gen"
    /\ Len(last.tried) = 2
    /\ Len(modelOrder) > 2
    /\ last.errors[2] = {"429", "rate"}
    /\ last.calls.fallback = <<modelOrder[1]>>

\* The first validation of the turn found candidates and none of them valid.
AllInvalid(l) == l.validation.valid = <<>> /\ l.validation.invalid # <<>>

\* C8: in a result turn whose first validation marks every candidate
\* invalid the repair call runs exactly once, and when the validation of the
\* repaired list has a valid source the displayed list is the first (up to 4)
\* of those valid sources: it is not taken from the invalid sources of the
\* first validation.
C8_RepairOnceThenValid ==
    (Finished(last) /\ last.kind = "result" /\ AllInvalid(last)) =>
        /\ last.calls.repair = 1
        /\ last.revalidation.valid # <<>> =>
            /\ last.sources = Take(withDomains(last.revalidation.valid), SourceLimit)
            /\ Urls(last.sources) \subseteq Urls(last.repairedSources)
            /\ last.citationBasis = "valid"
            /\ Head(last.sourcesMarkdown) = "**Sources:**"

\* Several candidates, all invalid at first; the repaired list has valid and
\* invalid sources.
C8_Witness ==
    /\ Finished(last)
    /\ last.kind = "result"
    /\ AllInvalid(last)
    /\ Len(last.validation.invalid) >= 3
    /\ last.revalidation.valid # <<>>
    /\ last.revalidation.invalid # <<>>
    /\ last.sources # <<>>

\* The validation that counts for the turn: the second one if a repair ran.
ReportOf(l) == IF l.calls.repair > 0 THEN l.revalidation ELSE l.validation

\* C9 (as stated): every source returned with a result response was
\* classified valid by a validation of that turn.
C9_ReturnedSourcesAreValid ==
    (Finished(last) /\ last.kind = "result") =>
        Urls(last.sources) \subseteq Urls(last.validation.valid) \cup Urls(last.revalidation.valid)

\* C9: the sources returned under the heading "Sources:" are the first (up to
\* 4) sources that the validation that counts classified valid; when that
\* validation has no valid source, the response carries up to 4 sources that
\* it did not classify valid under "Sources (unverified):", or
\* "Sources: (unavailable)" when there is none to show.
C9_ValidOrLabelledUnverified ==
    (Finished(last) /\ last.kind = "result") =>
        LET valid == ReportOf(last).valid
        IN  IF valid # <<>>
            THEN /\ last.sources = Take(withDomains(valid), SourceLimit)
                 /\ Head(last.sourcesMarkdown) = "**Sources:**"
            ELSE /\ Len(last.sources) <= SourceLimit
                 /\ Urls(last.sources) \subseteq
                        Urls(ReportOf(last).invalid) \cup Urls(last.repairedSources)
                            \cup Urls(last.rawSources)
                 /\ last.sourcesMarkdown =
                        IF last.sources = <<>> THEN <<"**Sources:** (unavailable)">>
                        ELSE <<"**Sources (unverified):**">> \o [i \in 1..Len(last.sources) |-> "link"]

\* A result whose sources all failed the validation that counts.
C9_Witness ==
    /\ Finished(last)
    /\ last.kind = "result"
    /\ last.calls.repair = 1
    /\ last.revalidation.valid = <<>>
    /\ Len(last.sources) >= 3
    /\ Urls(last.sources) \subseteq Urls(last.revalidation.invalid)

\* C10 (as stated): a turn in which the source generation call or the repair
\* call threw ends with a content event and a final event and no error
\* event, and completes the session.  (A turn whose write fails is left out.)
C10_SourceCallFailuresNotFatal ==
    (Finished(last) /\ last.threw # {} /\ last.failedAt # "store") =>
        /\ last.kind = "result"
        /\ HasEvent(last, "token")
        /\ HasEvent(last, "final")
        /\ ~HasEvent(last, "error")
        /\ sessions[last.session.id].status = "complete"

\* The turns of the chat handler proper: a request that got past the user
\* lookup and ran into the try block or the empty-message path.
ChatTurn(l) == Finished(l) /\ l.kind \in {"plan", "result", "apology", "empty", "error"}

EventTypes(l) == [i \in 1..Len(l.events) |-> l.events[i].type]

\* C11 (as stated): the events of every chat turn are zero or more activity
\* events, then exactly one token event, then exactly one terminal event,
\* final or error, and nothing after it.
C11_EventOrder ==
    ChatTurn(last) =>
        LET types == EventTypes(last)
            n == Len(types)
        IN  /\ n >= 2
            /\ \A i \in 1..(n - 2) : types[i] = "activity"
            /\ types[n - 1] = "token"
            /\ types[n] \in {"final", "error"}

\* An exception ended the processing of the request.
Raised(l) == Finished(l) /\ l.failedAt # Null

\* C12 (as stated): every request whose processing an exception ended got
\* exactly one error event, and its response stream was ended.
C12_ExceptionsBecomeOneError ==
    Raised(last) =>
        /\ Cardinality({i \in 1..Len(last.events) : last.events[i].type = "error"}) = 1
        /\ last.ended

Min(a, b) == IF a < b THEN a ELSE b

\* What C13 asks of a pruneSessions(user, k) call on table `before` that
\* left table `after`: min(n, k) rows of the user remain, none of them older
\* than a deleted one, every remaining row is as it was, and the rows of the
\* other users are all there.
Pruned(before, after, user, k) ==
    LET mine == SessionsOfUser(before, user)
        kept == SessionsOfUser(after, user)
    IN  /\ DOMAIN after \subseteq DOMAIN before
        /\ \A id \in DOMAIN after : after[id] = before[id]
        /\ DOMAIN before \ DOMAIN after \subseteq mine
        /\ Cardinality(kept) = Min(Cardinality(mine), k)
        /\ \A id \in kept, gone \in mine \ kept :
                before[id].created_at >= before[gone].created_at

C14_CompleteSessionsImmutable ==
    [][/\ \A id \in DOMAIN sessions \cap DOMAIN sessions' :
            sessions[id].status = "complete" => sessions'[id] = sessions[id]
       /\ Cardinality({id \in DOMAIN sessions' :
                id \notin DOMAIN sessions \/ sessions'[id] # sessions[id]}) <= 1
       /\ \A id \in DOMAIN sessions' \ DOMAIN sessions :
            /\ id = nextId
            /\ \A old \in DOMAIN sessions : old < id
            /\ ActiveSessions(sessions, sessions'[id].user_id) = {}]_vars

\* After a session of two turns was completed, the next message of its user
\* (here an empty one) is on record in a new session.
C14_Witness ==
    \E c \in DOMAIN sessions, n \in DOMAIN sessions :
        /\ sessions[c].status = "complete"
        /\ sessions[c].turn_count = 2
        /\ Len(sessions[c].chat_history) = 4
        /\ sessions[n].user_id = sessions[c].user_id
        /\ n > c
        /\ sessions[n].turn_count = 1
        /\ Blank(sessions[n].chat_history[1].content)

\* The user entries of a history that are not confirmations.
Categories(chatHistory) ==
    {i \in 1..Len(chatHistory) :
        chatHistory[i].role = "user" /\ ~isConfirmation(chatHistory[i].content)}

\* C16: inferCategory returns the message itself when the message is not a
\* short confirmation; otherwise the content of the last user entry of the
\* history that is not a confirmation, and the message itself when the
\* history has no such entry.
C16_CategoryOfConfirmation ==
    call.op = "inferCategory" =>
        LET idx == Categories(call.history)
        IN  IF ~isConfirmation(call.message) \/ idx = {}
            THEN call.result = call.message
            ELSE \E i \in idx :
                    /\ \A j \in idx : j <= i
                    /\ call.result = call.history[i].content

\* A confirmation after two different categories, an assistant entry and an
\* earlier confirmation: the later category is returned.
C16_Witness ==
    /\ call.op = "inferCategory"
    /\ isConfirmation(call.message)
    /\ Len(call.history) = 3
    /\ call.history[1] = [role |-> "user", content |-> <<"crm">>]
    /\ call.history[2] = [role |-> "user", content |-> <<"erp">>]
    /\ call.history[3].content = <<"yes">>
    /\ call.result = <<"erp">>

\* The messages of the categorized client errors.
ClientMessages ==
    {"The model is overloaded.", "Missing or invalid Gemini API key.",
     "Rate limit reached.", "Authentication failed.", "Network connection failed.",
     "Something went wrong."}

\* C17: the payload of every error event of a turn has one of the fixed
\* categorized messages and repeats nothing of the underlying error's text.
C17_ErrorPayloadCategorized ==
    \A i \in 1..Len(last.events) :
        last.events[i].type = "error" =>
            /\ \A j \in 1..Len(last.events[i].text) :
                    last.events[i].text[j] \in ClientMessages
            /\ ~last.events[i].detail.raw
            /\ last.events[i].detail.words = {}

\* C20: a result-mode turn that ended as a refusal and was written has kind
\* apology and no sources, its session is still active, and the row's
\* plan_text, plan_questions and plan_status are those of before the turn.
C20_RefusalKeepsPlan ==
    (/\ Finished(last)
     /\ last.genMode = "result"
     /\ last.kind = "apology"
     /\ last.written)
        => /\ last.sources = <<>>
           /\ sessions[last.session.id].status = "active"
           /\ sessions[last.session.id].trace_turns[Len(sessions[last.session.id].trace_turns)].kind
                = "apology"
           /\ sessions[last.session.id].plan_text = last.session.plan_text
           /\ sessions[last.session.id].plan_questions = last.session.plan_questions
           /\ sessions[last.session.id].plan_status = last.session.plan_status

DecimalDigits == {"0", "1", "2", "3", "4", "5", "6", "7", "8", "9"}

\* name is prefix followed by exactly three decimal digits.
ThreeDigitsAfter(prefix, name) ==
    /\ Len(name) = Len(prefix) + 3
    /\ SubSeq(name, 1, Len(prefix)) = prefix
    /\ \A k \in Len(prefix) + 1..Len(name) : name[k] \in DecimalDigits

\* C15: a call of generateUniqueUsername looks up at most 8 candidates and
\* goes on only while every candidate so far collided.  For a base name with a
\* non-empty normalized form it returns the candidate of its last lookup, the
\* normalized name followed by exactly 3 decimal digits, reported free after
\* collisions only, or null, and null exactly when 8 candidates collided; for
\* an empty normalized form it returns null without a lookup.
C15_UniqueUsername ==
    LET s == su[1]
        normalized == normalizeBaseName(s.base)
    IN  s.pc # "idle" =>
            /\ s.i <= LookupLimit
            /\ s.collisions <= s.i
            /\ s.pc = "lookup" => s.collisions = s.i /\ s.i < LookupLimit
            /\ normalized = <<>> => s.pc = "done" /\ s.unique = Null /\ s.i = 0
            /\ (s.pc = "done" /\ normalized # <<>>) =>
                    /\ s.i >= 1
                    /\ s.unique # Null =>
                            /\ s.unique = s.candidate
                            /\ ThreeDigitsAfter(normalized, s.unique)
                            /\ s.collisions = s.i - 1
                    /\ s.unique = Null <=> s.collisions = LookupLimit

\* Eight candidates of a name with surrounding blanks and punctuation
\* collided: the result is null.
C15_Witness ==
    /\ su[1].pc = "done"
    /\ su[1].base = <<" ", "A", " ", "t", "!", " ">>
    /\ su[1].i = LookupLimit
    /\ su[1].collisions = LookupLimit
    /\ su[1].unique = Null

\* No two rows of the users table share a username_key.
UniqueKeys(db) ==
    \A i \in 1..Len(db), j \in 1..Len(db) :
        db[i].username_key = db[j].username_key => i = j

\* C19: after every step no two users share a username_key.  A handler whose
\* candidate is held by a row when it inserts adds no row and answers 400
\* with an error; a handler whose base name has no letter or digit adds no
\* row and answers 400; rows already stored stay as they are.
C19_UsernameKeysUnique ==
    [][/\ UniqueKeys(users')
       /\ Len(users') >= Len(users)
       /\ SubSeq(users', 1, Len(users)) = users
       /\ \A p \in Procs :
            (/\ su[p].pc = "insert"
             /\ su'[p].pc = "done"
             /\ \E i \in 1..Len(users) : users[i].username_key = su[p].unique)
                => /\ users' = users
                   /\ su'[p].status = 400
                   /\ su'[p].error # ""
                   /\ su'[p].cookie = Null
       /\ \A p \in Procs :
            (/\ su'[p] # su[p]
             /\ \A k \in 1..Len(su'[p].base) : ToLower(su'[p].base[k]) \notin Alnum)
                => /\ users' = users
                   /\ su'[p].pc = "done"
                   /\ su'[p].status = 400
                   /\ su'[p].error # ""]_vars

\* A handler found its candidate free, another process stored that name first,
\* and the handler's insert was refused.
C19_Witness ==
    \E p \in Procs :
        /\ su[p].pc = "done"
        /\ su[p].i = 1
        /\ su[p].error = "Name already taken."
        /\ su[p].status = 400
        /\ \E i \in 1..Len(users) : users[i].username_key = su[p].unique

\* C18: whenever BT_ERROR_THRESHOLD flush failures have timestamps within a
\* span of at most BT_ERROR_WINDOW_MS, the integration is disabled (the
\* failure and the disabling are one step, so: no later than the last of them).
C18_RollingWindow ==
    (\E i \in 1..Len(bt.failures) :
        /\ i + BT_ERROR_THRESHOLD - 1 <= Len(bt.failures)
        /\ bt.failures[i + BT_ERROR_THRESHOLD - 1] - bt.failures[i] <= BT_ERROR_WINDOW_MS)
        => bt.btDisabled

\* The plan-mode generation call of the turn answered.
PlanAnswered(l) == Finished(l) /\ l.genMode = "plan" /\ l.modelUsed # Null

\* The reply's block parses to an object whose apology is a non-blank string.
HasApology(reply) ==
    LET parsedPlan == ParsedOrNull(reply)
    IN  parsedPlan.apology.str /\ ~Blank(parsedPlan.apology.text)

\* The row of the turn's session as it is now.
RowOf(l) == sessions[l.session.id]

\* The row holds no plan, in phase plan, and is active.
PlanCleared(row) ==
    /\ row.plan_text = NotString
    /\ row.plan_questions = NotArray
    /\ row.plan_status = Null
    /\ row.phase = "plan"
    /\ row.status = "active"

\* The turn's content event carries `text` and the response is `text`.
Answered(l, text) ==
    /\ l.response = text
    /\ \E i \in 1..Len(l.events) - 1 :
            /\ l.events[i] = Ev("token", text, "")
            /\ l.events[i + 1].type = "final"
            /\ \A j \in 1..Len(l.events) : l.events[j].type = "token" => j = i

\* C21 (as stated): a plan-mode turn whose parsed reply has a non-empty
\* apology emits it as the whole response, has kind apology, and afterwards
\* the session has no plan fields, phase plan and status active.
C21_PlanApologyClearsPlan ==
    (PlanAnswered(last) /\ HasApology(last.planResult)) =>
        /\ Answered(last, Trim(ParsedOrNull(last.planResult).apology.text))
        /\ last.kind = "apology"
        /\ PlanCleared(RowOf(last))

\* C21: a plan-mode turn whose parsed reply has a non-empty apology emits it
\* (trimmed) as the whole response and has kind apology; if the write that
\* follows the final event succeeded the session has plan_text, plan_questions
\* and plan_status null, phase plan and status active, with the turn on record
\* as an apology; if that write threw, the row is what it was and an error
\* event follows the final event.
C21_PlanApologyClearsPlanWhenWritten ==
    (PlanAnswered(last) /\ HasApology(last.planResult)) =>
        /\ Answered(last, Trim(ParsedOrNull(last.planResult).apology.text))
        /\ last.kind = "apology"
        /\ last.sources = <<>>
        /\ IF last.written
           THEN /\ PlanCleared(RowOf(last))
                /\ RowOf(last).trace_turns[Len(RowOf(last).trace_turns)].kind = "apology"
                /\ ~HasEvent(last, "error")
           ELSE /\ RowOf(last) = last.session
                /\ last.events[Len(last.events)].type = "error"

\* A session whose plan awaited clarification got an apology in plan mode
\* (the classifier asked for a new plan): its plan fields are gone.
C21_Witness ==
    /\ PlanAnswered(last)
    /\ HasApology(last.planResult)
    /\ last.written
    /\ PendingPlan(last)
    /\ RowOf(last).plan_status = Null
    /\ RowOf(last).plan_text = NotString

\* The reply has no block that parses, or the parsed plan is missing or
\* blank, or the parsed list of clarifying questions is missing or empty.
Degraded(reply) ==
    LET parsedPlan == ParsedOrNull(reply)
    IN  \/ ~parsedPlan.parsed
        \/ ~parsedPlan.plan.str
        \/ Blank(parsedPlan.plan.text)
        \/ ~parsedPlan.clarifying_questions.arr
        \/ parsedPlan.clarifying_questions.items = <<>>

\* C22 (as stated): a plan-mode turn whose reply has no parseable block, a
\* blank plan or no clarifying question ends with the fixed apology and a
\* final event, never an error event, is on record as an apology turn and
\* stores no plan.
C22_DegradedPlanApologizes ==
    (PlanAnswered(last) /\ Degraded(last.planResult)) =>
        /\ Answered(last, FixedApology)
        /\ ~HasEvent(last, "error")
        /\ last.kind = "apology"
        /\ PlanCleared(RowOf(last))
        /\ RowOf(last).trace_turns[Len(RowOf(last).trace_turns)].kind = "apology"

\* C22: a plan-mode turn whose reply has no parseable block, a blank plan or
\* no clarifying question, and no apology of its own, has the fixed apology as
\* content, then a final event, and kind apology; if the write that follows
\* succeeded there is no error event, the turn is on record as an apology and
\* the row holds no plan; if it threw, an error event follows the final event
\* and the row is what it was.
C22_DegradedPlanApologizesWhenWritten ==
    (PlanAnswered(last) /\ Degraded(last.planResult) /\ ~HasApology(last.planResult)) =>
        /\ Answered(last, FixedApology)
        /\ last.kind = "apology"
        /\ last.sources = <<>>
        /\ IF last.written
           THEN /\ ~HasEvent(last, "error")
                /\ PlanCleared(RowOf(last))
                /\ RowOf(last).turn_count = last.session.turn_count + 1
                /\ RowOf(last).trace_turns[Len(RowOf(last).trace_turns)].kind = "apology"
           ELSE /\ RowOf(last) = last.session
                /\ last.events[Len(last.events)].type = "error"
                /\ Cardinality({i \in 1..Len(last.events) :
                        last.events[i].type = "error"}) = 1

\* A reply whose block does not parse, on a session whose plan awaited
\* clarification: the fixed apology, and the stored plan is gone.
C22_Witness ==
    /\ PlanAnswered(last)
    /\ last.planResult.text # <<>>
    /\ ~ParsedOrNull(last.planResult).parsed
    /\ last.written
    /\ PendingPlan(last)
    /\ last.response = FixedApology
    /\ RowOf(last).plan_text = NotString

\* The non-blank clarifying questions of a parsed reply, in order.
QuestionsOf(parsedPlan) ==
    IF parsedPlan.clarifying_questions.arr
    THEN SelectSeq(parsedPlan.clarifying_questions.items, LAMBDA q : ~Blank(q))
    ELSE <<>>

\* The reply's block parses to a non-blank plan text and at least one
\* non-blank clarifying question.
YieldsPlan(reply) ==
    LET parsedPlan == ParsedOrNull(reply)
    IN  /\ parsedPlan.parsed
        /\ parsedPlan.plan.str
        /\ ~Blank(parsedPlan.plan.text)
        /\ QuestionsOf(parsedPlan) # <<>>

\* The plan text of the turn: the parsed plan, trimmed, with runs of three or
\* more newlines collapsed.
PlanTextOf(reply) == CollapseNewlines(Trim(ParsedOrNull(reply).plan.text))

\* The row holds the plan of the turn and its questions and awaits
\* clarification.
PlanStored(row, reply) ==
    /\ row.plan_text = Str(PlanTextOf(reply))
    /\ row.plan_questions = Arr(QuestionsOf(ParsedOrNull(reply)))
    /\ row.plan_status = "awaiting_clarification"
    /\ row.phase = "plan"
    /\ row.status = "active"

\* The visible response: the heading, the plan text and the first question.
PlanShown(l, reply) ==
    Answered(l, <<"### Plan">> \o PlanTextOf(reply) \o <<"**">>
                    \o Head(QuestionsOf(ParsedOrNull(reply))))

\* C23 (as stated): a plan-mode turn that yields a non-blank plan text and a
\* clarifying question persists that plan text, all non-blank questions in
\* order, plan_status awaiting_clarification and phase plan, stays active,
\* and shows the plan text followed by the first question only.
C23_PlanPersisted ==
    (PlanAnswered(last) /\ YieldsPlan(last.planResult)) =>
        /\ PlanShown(last, last.planResult)
        /\ PlanStored(RowOf(last), last.planResult)

\* C23: a plan-mode turn whose reply has no apology of its own and yields a
\* non-blank plan text and a non-blank clarifying question shows the plan text
\* followed by the first such question only and has kind plan; if the write
\* that follows the final event succeeded the row holds that plan text, all
\* non-blank questions in order, plan_status awaiting_clarification, phase
\* plan and status active; if it threw, the row is what it was and an error
\* event follows the final event.
C23_PlanPersistedWhenWritten ==
    (PlanAnswered(last) /\ YieldsPlan(last.planResult) /\ ~HasApology(last.planResult)) =>
        /\ PlanShown(last, last.planResult)
        /\ last.kind = "plan"
        /\ IF last.written
           THEN /\ PlanStored(RowOf(last), last.planResult)
                /\ RowOf(last).trace_turns[Len(RowOf(last).trace_turns)].kind = "plan"
                /\ ~HasEvent(last, "error")
           ELSE /\ RowOf(last) = last.session
                /\ last.events[Len(last.events)].type = "error"

\* A reply with a padded plan text and three questions, the first of them
\* blank: two questions are stored, the second of the reply is shown.
C23_Witness ==
    /\ PlanAnswered(last)
    /\ YieldsPlan(last.planResult)
    /\ last.written
    /\ Len(ParsedOrNull(last.planResult).clarifying_questions.items) = 3
    /\ RowOf(last).plan_questions = Arr(<<<<"q1">>, <<"q2">>>>)
    /\ RowOf(last).plan_text = Str(<<"P", "\n\n", "steps">>)
    /\ last.response = <<"### Plan", "P", "\n\n", "steps", "**", "q1">>

\* a is a prefix of b.
IsPrefix(a, b) == Len(a) <= Len(b) /\ SubSeq(b, 1, Len(a)) = a

\* The row's history has two entries per turn, user then assistant, and its
\* trace has one entry per turn, numbered from 1.
Shaped(row) ==
    /\ Len(row.chat_history) = 2 * row.turn_count
    /\ \A i \in 1..Len(row.chat_history) :
            row.chat_history[i].role = IF i % 2 = 1 THEN "user" ELSE "assistant"
    /\ Len(row.trace_turns) = row.turn_count
    /\ \A i \in 1..Len(row.trace_turns) : row.trace_turns[i].turn = i

\* C24: with requests served one after another, after every step every
\* session's chat_history has 2 * turn_count entries alternating user and
\* assistant and its trace has turn_count entries numbered 1..turn_count; a
\* step that changes a row adds one turn to it and keeps the history and the
\* trace it had as a prefix.
C24_HistoryAppendOnly ==
    [][\A id \in DOMAIN sessions' :
            /\ Shaped(sessions'[id])
            /\ (id \in DOMAIN sessions /\ sessions'[id] # sessions[id]) =>
                    /\ sessions'[id].turn_count = sessions[id].turn_count + 1
                    /\ IsPrefix(sessions[id].chat_history, sessions'[id].chat_history)
                    /\ IsPrefix(sessions[id].trace_turns, sessions'[id].trace_turns)]_vars

\* A session of three turns that ended with a result.
C24_Witness ==
    \E id \in DOMAIN sessions :
        /\ sessions[id].turn_count = 3
        /\ sessions[id].status = "complete"
        /\ Len(sessions[id].chat_history) = 6
        /\ sessions[id].trace_turns[3].kind = "result"

\* The validation has an invalid source or fewer than 3 valid ones.
Insufficient(validation) ==
    Len(validation.invalid) >= 1 \/ Len(validation.valid) < 3

\* The result turn went through its citation pipeline to the end.
ResultTurn(l) == Finished(l) /\ l.kind = "result"

\* C25: in a result turn the repair call runs exactly when the first
\* validation has an invalid source or fewer than 3 valid sources, and at most
\* once, also when the second validation is insufficient again.
C25_RepairIffInsufficientOnce ==
    \A l \in Turns :
        /\ l.calls.repair <= 1
        /\ l.calls.repair = 1 => Insufficient(l.validation)
        /\ l.pc = "repair" => Insufficient(l.validation) /\ l.calls.repair = 0
        /\ l.pc = "revalidate" => l.calls.repair = 1
        /\ ResultTurn(l) =>
                /\ l.calls.repair = 1 <=> Insufficient(l.validation)
                /\ l.calls.repair = 0 => l.revalidation = NoValidation

\* One valid candidate and no invalid one at first; the repaired list was
\* insufficient again, and the turn ended after that one repair.
C25_Witness ==
    /\ ResultTurn(last)
    /\ Len(last.validation.valid) = 1
    /\ last.validation.invalid = <<>>
    /\ Insufficient(last.revalidation)
    /\ last.revalidation.invalid # <<>>
    /\ last.calls.repair = 1

\* The urls of a list, in order.
UrlSeq(list) == [i \in 1..Len(list) |-> list[i].url]

\* The first up to 4 entries of a list.
FirstFour(list) == SubSeq(list, 1, Min(4, Len(list)))

\* C26: when the authoritative validation (the second if a repair ran, else
\* the first) has a valid source, the final list is the first min(4, n) of its
\* n valid sources in the validator's order, the heading is "Sources:", and
\* the citation report is the valid and invalid lists of that pass.
C26_ValidSourcesSelected ==
    (ResultTurn(last) /\ ReportOf(last).valid # <<>>) =>
        /\ UrlSeq(last.sources) = UrlSeq(FirstFour(ReportOf(last).valid))
        /\ Head(last.sourcesMarkdown) = "**Sources:**"
        /\ Len(last.sourcesMarkdown) = 1 + Len(last.sources)
        /\ last.citationReport = ReportOf(last)

\* Five valid sources after a repair whose first pass had invalid ones: four
\* go out.
C26_Witness ==
    /\ ResultTurn(last)
    /\ last.calls.repair = 1
    /\ last.validation.invalid # <<>>
    /\ Len(last.revalidation.valid) = 5
    /\ Len(last.sources) = 4

\* The first non-empty of three lists (the last if none is).
FirstNonEmpty(a, b, c) == IF a # <<>> THEN a ELSE IF b # <<>> THEN b ELSE c

\* C27: when the authoritative validation has no valid source, the final
\* list is the first up to 4 entries of the first non-empty list among the
\* invalid sources of the repair pass, the repaired list and the original
\* candidates; the heading is "Sources (unverified):" when it is non-empty,
\* and the sources line is "Sources: (unavailable)" exactly when all three
\* lists are empty.
C27_FallbackSourcesSelected ==
    (ResultTurn(last) /\ ReportOf(last).valid = <<>>) =>
        LET fallback == FirstNonEmpty(last.revalidation.invalid, last.repairedSources,
                                      last.rawSources)
        IN  /\ last.calls.repair = 1
            /\ UrlSeq(last.sources) = UrlSeq(FirstFour(fallback))
            /\ fallback # <<>> =>
                    /\ Head(last.sourcesMarkdown) = "**Sources (unverified):**"
                    /\ Len(last.sourcesMarkdown) = 1 + Len(last.sources)
            /\ last.sourcesMarkdown = <<"**Sources:** (unavailable)">> <=> fallback = <<>>

\* The repair returned nothing while the original candidates, all invalid,
\* were five: four of them go out as unverified.
C27_Witness ==
    /\ ResultTurn(last)
    /\ last.calls.repair = 1
    /\ last.repairedSources = <<>>
    /\ Len(last.rawSources) = 5
    /\ UrlSeq(last.sources) = UrlSeq(SubSeq(last.rawSources, 1, 4))
    /\ Head(last.sourcesMarkdown) = "**Sources (unverified):**"

\* The site answered one of the two fetches with a 2xx status.
Live(site) == site.head = "2xx" \/ site.get = "2xx"

\* The positions of the input at which the sources of `part` stand.
PositionsOf(part, sources) ==
    {i \in 1..Len(sources) : \E k \in 1..Len(part) : part[k] = sources[i]}

\* The entries of `part` are sources of the input in input order.
InInputOrder(part, sources) ==
    \A k \in 1..Len(part) :
        \E i \in 1..Len(sources) :
            /\ sources[i] = part[k]
            /\ \A m \in 1..(k - 1) : \E j \in 1..(i - 1) : sources[j] = part[m]

\* C28: validateSources partitions its input: every input source is in
\* exactly one of valid and invalid, each in input order; a source is valid
\* exactly when its HEAD fetch returned 2xx or, failing that, its GET fetch
\* returned 2xx; GET is sent only when HEAD threw, timed out or returned
\* another status, and HEAD is always sent first.
C28_ValidatePartitions ==
    call.op = "validateSources" =>
        LET sources == call.sources
            valid == call.result.valid
            invalid == call.result.invalid
        IN  /\ Len(valid) + Len(invalid) = Len(sources)
            /\ PositionsOf(valid, sources) \cup PositionsOf(invalid, sources)
                    = 1..Len(sources)
            /\ PositionsOf(valid, sources) \cap PositionsOf(invalid, sources) = {}
            /\ InInputOrder(valid, sources)
            /\ InInputOrder(invalid, sources)
            /\ \A i \in 1..Len(sources) :
                    /\ i \in PositionsOf(valid, sources) <=> Live(call.sites[i])
                    /\ Head(call.requests[i]) = "HEAD"
                    /\ Len(call.requests[i]) <= 2
                    /\ Len(call.requests[i]) = 2 <=>
                            call.sites[i].head \in {"404", "throw", "timeout"}
                    /\ Len(call.requests[i]) = 2 => call.requests[i][2] = "GET"

\* Three sources: HEAD of the first timed out and its GET returned 2xx, the
\* second failed both fetches, the third answered HEAD with 2xx.
C28_Witness ==
    /\ call.op = "validateSources"
    /\ Len(call.sources) = 3
    /\ call.sites[1] = [head |-> "timeout", get |-> "2xx"]
    /\ call.sites[2] = [head |-> "404", get |-> "throw"]
    /\ call.sites[3].head = "2xx"
    /\ call.result.valid = <<call.sources[1], call.sources[3]>>
    /\ call.result.invalid = <<call.sources[2]>>
    /\ call.requests[3] = <<"HEAD">>

\* The i-th failed call of the turn failed with a transient error.
Transient(l, i) == l.errors[i] \cap RetryVocabulary # {}

\* Every model of the order was called and failed with a transient error.
Exhausted(l) ==
    /\ l.genMode # Null
    /\ Len(l.tried) = Len(modelOrder)
    /\ \A i \in 1..Len(l.tried) : Transient(l, i)

\* The number of events of a type among the events of the turn.
CountEvents(l, type) == Cardinality({i \in 1..Len(l.events) : l.events[i].type = type})

\* C29: while the models fail with transient errors they are called once each
\* in list order; when all have failed so, no further call is made, the turn
\* is over with the error of the last model as its one error event, without a
\* content event and without a write.
C29_AllModelsFailTransient ==
    \A l \in Turns :
        /\ (l.genMode # Null /\ \A i \in 1..Len(l.tried) : Transient(l, i)) =>
                /\ Len(l.tried) <= Len(modelOrder)
                /\ l.modelUsed = Null => CalledModels(l) = SubSeq(modelOrder, 1, Len(l.tried))
        /\ Exhausted(l) =>
                /\ Finished(l)
                /\ l.kind = "error"
                /\ l.failedAt = "gen"
                /\ l.modelUsed = Null
                /\ CalledModels(l) = modelOrder
                /\ l.events[Len(l.events)] = ErrorEv(l.errors[Len(modelOrder)])
                /\ CountEvents(l, "error") = 1
                /\ CountEvents(l, "token") = 0
                /\ CountEvents(l, "final") = 0
                /\ ~l.written

\* Four models failed in turn, the last with a DNS failure after an overload
\* error of the first: "Network connection failed." goes to the client.
C29_Witness ==
    /\ Exhausted(last)
    /\ Len(modelOrder) = 4
    /\ last.errors[1] = {"overloaded"}
    /\ last.errors[4] = {"network", "enotfound"}
    /\ last.events[Len(last.events)].text = <<"Network connection failed.">>

\* The models the "Retrying" activity events of the turn name, in order.
RetryModels(l) ==
    LET retries == SelectSeq(l.events,
                        LAMBDA e : e.type = "activity" /\ e.text = <<"Retrying">>)
    IN  [i \in 1..Len(retries) |-> retries[i].model]

\* The failed calls of the turn that were transient and not of the last model.
Retryable(l) ==
    {i \in 1..Len(l.tried) : Transient(l, i) /\ i < Len(modelOrder)}

\* C30: the "Retrying M" events of a generation call are, in order, one per
\* model that failed with a transient error while a next model M was left in
\* the order; M is the model called next (or the call of M is pending); the
\* failure of the last model and a non-transient failure add no such event.
C30_RetryingNamesNextModel ==
    \A l \in Turns :
        l.genMode # Null =>
            /\ Len(RetryModels(l)) = Cardinality(Retryable(l))
            /\ Retryable(l) = 1..Len(RetryModels(l))
            /\ \A i \in 1..Len(RetryModels(l)) :
                    /\ RetryModels(l)[i] = modelOrder[i + 1]
                    /\ IF i + 1 <= Len(CalledModels(l))
                       THEN CalledModels(l)[i + 1] = RetryModels(l)[i]
                       ELSE l.pc = "gen" /\ i = Len(l.tried)

\* Two models failed with transient errors and the third failed for good:
\* two "Retrying" events, for the second and the third model.
C30_Witness ==
    /\ Finished(last)
    /\ last.failedAt = "gen"
    /\ Len(modelOrder) = 4
    /\ Len(last.tried) = 3
    /\ ~Transient(last, 3)
    /\ RetryModels(last) = <<modelOrder[2], modelOrder[3]>>

\* C31: a transient error of the primary model during the classifier call,
\* with a further model left in the order, does not end the turn at the
\* classifier: no turn fails at "assess" with a transient error while the
\* model order has a second model.
C31_ClassifierFallsBack ==
    \A l \in Turns :
        (Finished(l) /\ l.failedAt = "assess" /\ Len(modelOrder) > 1) =>
            l.errors[Len(l.errors)] \cap RetryVocabulary = {}

\* The entries of the primary, the default fallbacks and the configured list,
\* in that order.
Configured(c) == <<c.primary>> \o DEFAULT_FALLBACKS \o c.fallbackValue

\* C32: the model order has no duplicates and no blank entry, starts with the
\* primary model, holds exactly the non-blank names of the primary, the
\* default fallbacks and the configured list, and orders them by their first
\* occurrence in that concatenation; it is never empty.
C32_ModelOrderDeduplicated ==
    call.op = "buildModelOrder" =>
        LET order == call.result
            all == Configured(call)
        IN  /\ order # <<>>
            /\ order[1] = call.primary
            /\ \A i, j \in 1..Len(order) : i # j => order[i] # order[j]
            /\ {order[i] : i \in 1..Len(order)} = {all[i] : i \in 1..Len(all)} \ {""}
            /\ \A i, j \in 1..Len(order) :
                    i < j => IndexOf(all, order[i]) < IndexOf(all, order[j])

\* The configured list repeats the primary and a default fallback around a
\* blank entry and a new name: four models remain.
C32_Witness ==
    /\ call.op = "buildModelOrder"
    /\ call.primary = "gemini-pro"
    /\ call.fallbackValue = <<"gemini-pro", "", "gemini-extra">>
    /\ call.result = <<"gemini-pro", "gemini-2.5-flash", "gemini-2.5-flash-lite", "gemini-extra">>

\* Every flush error came more than BT_ERROR_WINDOW_MS after the one before.
Spaced(b) ==
    \A i \in 1..(Len(b.failures) - 1) :
        b.failures[i + 1] - b.failures[i] > BT_ERROR_WINDOW_MS

\* state.disable() was called once when the integration is disabled, and was
\* not called before; flush errors that are each more than the window after
\* the one before count 1 and do not disable.
BreakerState ==
    /\ bt.disableCalls = (IF bt.btDisabled THEN 1 ELSE 0)
    /\ (Spaced(bt) /\ bt.failures # <<>>) => (bt.btErrorCount = 1 /\ ~bt.btDisabled)

\* A step keeps the integration disabled, and a flush error that comes more
\* than BT_ERROR_WINDOW_MS after the start of the window opens a new window
\* with count 1 without disabling.
BreakerStep ==
    /\ bt.btDisabled => (bt'.btDisabled /\ bt'.disableCalls = bt.disableCalls)
    /\ (/\ Len(bt'.failures) > Len(bt.failures)
        /\ bt.btErrorWindowStart # 0
        /\ bt.now - bt.btErrorWindowStart > BT_ERROR_WINDOW_MS)
            => /\ bt'.btErrorWindowStart = bt.now
               /\ bt'.btErrorCount = 1
               /\ bt'.btDisabled = bt.btDisabled

\* C33: once disabled the integration stays disabled at every later flush
\* error, state.disable() is called at most once in the life of the process,
\* and flush errors that arrive more than BT_ERROR_WINDOW_MS after the window
\* start never add up to the threshold.
C33_BreakerLatches == [] BreakerState /\ [][BreakerStep]_vars

\* Three flush errors (as many as the threshold), each more than the window
\* after the one before: the integration is still enabled.
C33_Witness ==
    /\ Len(bt.failures) = BT_ERROR_THRESHOLD
    /\ Spaced(bt)
    /\ ~bt.btDisabled

\* The columns a turn writes.
TurnColumns ==
    {"chat_history", "trace_turns", "turn_count", "status", "phase",
     "plan_text", "plan_questions", "plan_status"}

\* The position of the first event of a type among the events, 0 if none.
FirstEvent(l, type) ==
    IF HasEvent(l, type)
    THEN CHOOSE i \in 1..Len(l.events) :
            l.events[i].type = type /\ \A j \in 1..(i - 1) : l.events[j].type # type
    ELSE 0

\* The steps of a turn at which the classifier, a generation call or the
\* citation pipeline throws.
TurnSteps == {"assess", "gen", "gensrc", "validate", "repair", "revalidate"}

\* A turn that wrote had sent its final event; a turn whose write threw had
\* sent the final event before the error event; a turn that failed at the
\* classifier, a generation call or the citation steps has no final event and
\* its session row is the one it loaded.
NoWriteBeforeFinal ==
    /\ (Finished(last) /\ last.written) =>
            /\ HasEvent(last, "final")
            /\ ~HasEvent(last, "error")
    /\ (Finished(last) /\ last.failedAt = "store") =>
            /\ HasEvent(last, "final")
            /\ HasEvent(last, "error") =>
                    FirstEvent(last, "final") < FirstEvent(last, "error")
    /\ (Finished(last) /\ last.failedAt \in TurnSteps) =>
            /\ last.events[Len(last.events)].type = "error"
            /\ ~HasEvent(last, "final")
            /\ ~last.written
            /\ last.session.id \in DOMAIN sessions
            /\ sessions[last.session.id] = last.session

\* A step that changes a turn column of an existing row is the end of a turn
\* on that row which sent its final event and no error event.
WriteEndsTurn ==
    \A id \in DOMAIN sessions \cap DOMAIN sessions' :
        (\E f \in TurnColumns : sessions'[id][f] # sessions[id][f]) =>
            /\ Finished(last')
            /\ last'.written
            /\ last'.session.id = id
            /\ HasEvent(last', "final")
            /\ ~HasEvent(last', "error")

\* C34: the row of a turn is written only once the turn's final event was
\* sent, and a turn that ends with the error event of a failed classifier,
\* generation or citation step leaves chat_history, trace turns, turn_count,
\* status, phase and the plan columns as the turn found them.
C34_WriteAfterFinalOnly == [] NoWriteBeforeFinal /\ [][WriteEndsTurn]_vars

\* The repair call of a result turn on a pending plan threw: an error event,
\* and the row still holds the pending plan and its one turn.
C34_Witness ==
    /\ Finished(last)
    /\ last.failedAt = "repair"
    /\ last.session.plan_status = "awaiting_clarification"
    /\ sessions[last.session.id] = last.session
    /\ last.session.turn_count > 0

\* C35: when requests of one user interleave at their awaits, the user still
\* has at most one session with status = active in every reachable state.
C35_OneActiveWhenInterleaved ==
    \A user \in Users : Cardinality(ActiveSessions(sessions, user)) <= 1

\* The rows that exist before and after the step.
KeptRows == DOMAIN sessions \cap DOMAIN sessions'

\* C36: when requests on one active session interleave at their awaits, no
\* write lowers the persisted turn_count and every write of chat_history
\* keeps the chat_history persisted before it as a prefix.
C36_NoPersistedTurnLost ==
    [][\A id \in KeptRows :
            /\ sessions'[id].turn_count >= sessions[id].turn_count
            /\ IsPrefix(sessions[id].chat_history, sessions'[id].chat_history)]_vars

\* C36, amended: every write is computed from the row the writing request
\* loaded (last write wins): turn_count is the loaded count plus one and
\* chat_history the loaded history plus the request's two entries, whatever
\* other requests have written to the row since.
C36_LastWriteWins ==
    [][\A id \in KeptRows :
            (\/ sessions'[id].turn_count # sessions[id].turn_count
             \/ sessions'[id].chat_history # sessions[id].chat_history) =>
                /\ last'.written
                /\ last'.session.id = id
                /\ sessions'[id].turn_count = last'.session.turn_count + 1
                /\ sessions'[id].chat_history =
                        last'.session.chat_history
                            \o <<[role |-> "user", content |-> last'.message],
                                 [role |-> "assistant", content |-> last'.response]>>]_vars

\* Two requests loaded the same row; one has written its turn and the other,
\* still in flight, will write from the row it loaded.
C36_Witness ==
    \E r \in Reqs :
        /\ rq[r].pc \notin {"idle", "export"}
        /\ last.written
        /\ last.session = rq[r].session
        /\ sessions[last.session.id].turn_count = rq[r].session.turn_count + 1
        /\ sessions[last.session.id].status = "active"

\* C37: when the requests on a session interleave, a late write of a request
\* that loaded the session while it was active does not alter the completed
\* session: every complete session has phase = result and plan_status =
\* executed, and no step changes the chat_history or the turn_count of a
\* complete session.
C37_LateWriteSparesComplete ==
    /\ [](\A id \in DOMAIN sessions :
            sessions[id].status = "complete" =>
                sessions[id].phase = "result" /\ sessions[id].plan_status = "executed")
    /\ [][\A id \in KeptRows :
            sessions[id].status = "complete" =>
                /\ sessions'[id].chat_history = sessions[id].chat_history
                /\ sessions'[id].turn_count = sessions[id].turn_count]_vars

\* C38: with requests served one after another, every active session is in
\* phase plan; a result generation call is made only in a turn that loaded a
\* pending plan and whose classifier verdict came out as keep; the first turn
\* of a session is never a result turn, and a complete session has had at
\* least two turns.
C38_ResultOnlyAfterKeep ==
    /\ \A id \in DOMAIN sessions :
            /\ sessions[id].status = "active" => sessions[id].phase = "plan"
            /\ sessions[id].status = "complete" => sessions[id].turn_count >= 2
    /\ \A l \in Turns :
            (l.calls.result > 0 \/ l.genMode = "result" \/ l.effectiveMode = "result") =>
                /\ l.initialMode = "plan"
                /\ l.session.phase = "plan"
                /\ PendingPlan(l)
                /\ l.calls.assess = 1
                /\ l.assessmentAction = "keep"
                /\ l.session.turn_count >= 1

\* The second turn of a session was a result turn after a verdict of keep and
\* completed the session.
C38_Witness ==
    /\ Finished(last)
    /\ last.written
    /\ last.kind = "result"
    /\ last.assessmentAction = "keep"
    /\ last.session.turn_count = 1
    /\ sessions[last.session.id].status = "complete"

\* The columns that hold the plan and the state of the session.
PlanColumns == {"plan_text", "plan_questions", "plan_status", "phase", "status"}

\* C39: with requests served one after another, a session whose plan_status
\* is awaiting_clarification has a plan_text that is a non-blank string and a
\* plan_questions array with at least one question, none of them blank; and
\* an empty-message turn leaves plan_text, plan_questions, plan_status, phase
\* and status as it loaded them.
C39_PendingPlanWellFormed ==
    /\ \A id \in DOMAIN sessions :
            sessions[id].plan_status = "awaiting_clarification" =>
                /\ sessions[id].plan_text.str
                /\ ~Blank(sessions[id].plan_text.text)
                /\ sessions[id].plan_questions.arr
                /\ sessions[id].plan_questions.items # <<>>
                /\ \A i \in 1..Len(sessions[id].plan_questions.items) :
                        ~Blank(sessions[id].plan_questions.items[i])
    /\ (Finished(last) /\ last.session # NoRow /\ Blank(last.message)) =>
            /\ last.session.id \in DOMAIN sessions
            /\ last.calls = NoCalls
            /\ \A f \in PlanColumns : sessions[last.session.id][f] = last.session[f]

\* An empty message on a pending plan was answered and recorded: the turn is
\* counted and the plan still awaits clarification.
C39_Witness ==
    /\ Finished(last)
    /\ last.kind = "empty"
    /\ last.written
    /\ PendingPlan(last)
    /\ sessions[last.session.id].turn_count = last.session.turn_count + 1
    /\ sessions[last.session.id].plan_status = "awaiting_clarification"
    /\ sessions[last.session.id].plan_text = last.session.plan_text

\* The sources line goes out under the plain heading "Sources:".
PlainHeading(l) == l.sourcesMarkdown # <<>> /\ Head(l.sourcesMarkdown) = "**Sources:**"

\* C40: in a result turn whose first validation found a valid source, the
\* final list holds a source that passed a validation of the turn and goes
\* out under the plain heading, whatever the repair call returns (turns whose
\* repair call threw are left out).
C40_FirstPassValidSurvives ==
    (ResultTurn(last) /\ last.validation.valid # <<>>) =>
        /\ PlainHeading(last)
        /\ Urls(last.sources) \cap
                (Urls(last.validation.valid) \cup Urls(last.revalidation.valid)) # {}

\* C40, amended: the valid sources of the first validation reach the client
\* only when no repair is triggered.  When it is (an invalid source or fewer
\* than 3 valid ones), the first validation is discarded: the final list
\* holds validated sources under the plain heading exactly when the second
\* validation has a valid source, and all of them are from the second
\* validation; otherwise the list is the unverified fallback or unavailable.
\* When the repair call throws, the turn ends with an error event and no list.
C40_FirstPassDiscardedOnRepair ==
    (Finished(last) /\ last.genMode = "result" /\ last.validation.valid # <<>>) =>
        IF ~Insufficient(last.validation)
        THEN /\ ResultTurn(last)
             /\ last.calls.repair = 0
             /\ PlainHeading(last)
             /\ UrlSeq(last.sources) = UrlSeq(FirstFour(last.validation.valid))
        ELSE IF last.failedAt = "repair"
        THEN /\ last.kind = "error"
             /\ last.sources = <<>>
             /\ ~HasEvent(last, "final")
             /\ ~HasEvent(last, "token")
        ELSE /\ ResultTurn(last)
             /\ last.calls.repair = 1
             /\ PlainHeading(last) <=> last.revalidation.valid # <<>>
             /\ last.revalidation.valid # <<>> =>
                    Urls(last.sources) \subseteq Urls(last.revalidation.valid)
             /\ last.revalidation.valid = <<>> =>
                    \/ Head(last.sourcesMarkdown) = "**Sources (unverified):**"
                    \/ last.sourcesMarkdown = <<"**Sources:** (unavailable)">>

\* One live candidate at first, too few: the repair ran, none of its sources
\* is live, and the list goes out as unverified.
C40_Witness ==
    /\ ResultTurn(last)
    /\ Len(last.validation.valid) = 1
    /\ last.validation.invalid = <<>>
    /\ last.calls.repair = 1
    /\ last.revalidation.valid = <<>>
    /\ Head(last.sourcesMarkdown) = "**Sources (unverified):**"

====
